---------------------------- MODULE Spec2Model ----------------------------
(***************************************************************************)
(* go-audit: the asynchronous audit-capture pipeline of chiware            *)
(* (AuditMiddleware: Handler, worker, Shutdown) and the transactional      *)
(* session injector of pgxaudit (AuditPool.Exec).                          *)
(*                                                                         *)
(* Spec      the worker-pool pipeline (chiware/middleware.go)              *)
(* SpecReq   the pipeline with the inputs of each request kept             *)
(* SpecExec  the injector's Exec, Query and QueryRow (pgxaudit AuditPool)  *)
(* SpecFact  the entry factory NewAuditLog and MethodToAction               *)
(* SpecCtx   the audit context: WithInfo, InfoFrom, WithSkipAudit           *)
(* SpecList  PostgresRepo.List over the stored rows                        *)
(* SpecLive  the pipeline under fair scheduling of workers and Shutdown     *)
(* SpecTree  contexts as objects: several derivations of one context       *)
(* SpecHttp  one request through the middleware function, status capture   *)
(* SpecRepo  PostgresRepo.Create called by a worker or by a host           *)
(* SpecUnvalidated  the running pipeline with jobs the factory rejects     *)
(***************************************************************************)
EXTENDS Naturals, Sequences, FiniteSets

(***************************************************************************)
(* Bounds of the model.  NumWorkers and QueueCap scale down defaultWorkers *)
(* (4) and defaultQueueSize (256) of middleware.go:20-23.                  *)
(***************************************************************************)
NumWorkers == 2
QueueCap == 2
MaxRequests == 4
MaxCalls == 2
MaxBuilds == 2
MaxCtxDepth == 3
MaxRows == 2
MaxNodes == 3
MaxServed == 2
MaxCreates == 2

Workers == 1..NumWorkers
JobIds == 1..MaxRequests
\* the callers of Shutdown: the owner's call and a repeated one
Closers == {"first", "repeated"}

VARIABLES
  jobs,         \* m.jobs: the buffered channel's buffer, a sequence of auditJob
  closed,       \* whether close(m.jobs) has happened
  wg,           \* m.wg: the WaitGroup counter
  wpc,          \* per worker: "idle" | "creating" (in repo.Create) | "terminated"
  wjob,         \* per worker: the job the loop variable holds
  spc,          \* per Shutdown call: "idle" | "waiting" | "returned" | "panicked"
  nextReq,      \* number of the next request to reach the handler's tail
  outcome,      \* per request: how the handler ended
  built,        \* per request: the auditJob the handler built (NoJob if none)
  warns,        \* per request: logger.Warn calls ("queue full, discarding")
  errlogs,      \* per request: logger.Error calls of the workers
  newCalls,     \* per request: audit.NewAuditLog calls made for its job
  createCalls,  \* per request: repo.Create calls made for its job
  done,         \* per request: "none" | "invalid" | "persisted" | "failed"
  entries       \* the repository's content, in the order Create stored it

VARIABLES
  xpc,       \* Exec's position: "idle" | "entry" | "set" | "stmt" | "commit" | "returned"
  ctx,       \* the call's context: [info, skip], what InfoFrom / ShouldSkip read
  calls,     \* number of Exec calls made so far
  tx,        \* the call's transaction: "none" | "open" | "committed" | "rolledback"
  begins,    \* pool.Begin calls made by the call
  remaining, \* keys of configs the range loop has not visited yet
  connVars,  \* session variables in effect on the pooled connection
  stmt,      \* the original statement: [via, res, saw]
  applied,   \* whether the statement's effect is durable in the database
  ret        \* what Exec returned: "none" | "ok" | "err"

VARIABLES
  heap,      \* the contexts derived so far: [parent, binding], 0 = Background
  snap,      \* per derived context: what it read when it was returned
  ptr        \* the *Info the last InfoFrom returned: [live, of, val, shared]

VARIABLES
  hn,        \* number of requests the middleware function was entered for
  hpc,       \* the request in hand: "idle" | "serving" | "returned" | "done"
             \* | "panicked"
  hreq,      \* its method and what the extractor and ExtractResource return
  ww,        \* the WrapResponseWriter: [code, wroteHeader]
  sent,      \* the status code of the response, 0 while none is decided
  hjob,      \* the details of the job built for it: [present, status_code,
             \* method]
  hbuilt     \* number of jobs built for it

VARIABLES
  rn,        \* number of PostgresRepo.Create calls prepared
  rpc,       \* the call in hand: "idle" | "built" | "created"
  rcaller,   \* who makes it: "none" | "worker" | "host"
  rreq,      \* the context of the originating request (of the host's call)
  rctx,      \* the context passed to Create
  rmade,     \* the entry as it was when it was built
  rentry,    \* the entry as it is now
  rexecs,    \* the pool.Exec calls the Create call issued
  rret,      \* the error Create returned: [msg, cause], msg "" for nil
  rstored    \* whether the row was inserted by the call

VARIABLES
  tag        \* the command tag Exec returned: "none" | "empty" | "stmt"

VARIABLES
  reqs,      \* per request: what the extractor and ExtractResource returned
  rd         \* the last Query / QueryRow: [kind, ctx, via, saw, res, at]

VARIABLES
  fcount,    \* number of NewAuditLog calls made
  uuids,     \* the identifiers uuid.New() has returned
  fprior,    \* the ids of the entries built before the last call
  fcall,     \* the last NewAuditLog call: [caller, method, in]
  fret,      \* what it returned: [err, entry]
  fclock,    \* the clock it consulted: [by, t]
  fcreate    \* the entry the worker passed to repo.Create after it

VARIABLES
  cx,        \* the context in hand: its chain of WithValue bindings, root first
  got        \* the last InfoFrom / ShouldSkip: [kind, of, info, skip]

VARIABLES
  table,     \* audit.audit_logentry: the set of stored rows
  lst        \* the last List: [kind, f, of, items, total, err]

execVars == <<xpc, ctx, calls, tx, begins, remaining, connVars, stmt, applied,
              ret, tag>>
readVars == <<rd>>
reqVars == <<reqs>>
ctxVars == <<cx, got>>
treeVars == <<heap, snap, ptr>>
listVars == <<table, lst>>
httpVars == <<hn, hpc, hreq, ww, sent, hjob, hbuilt>>
repoVars == <<rn, rpc, rcaller, rreq, rctx, rmade, rentry, rexecs, rret, rstored>>
factVars == <<fcount, uuids, fprior, fcall, fret, fclock, fcreate>>

pipeVars == <<jobs, closed, wg, wpc, wjob, spc, nextReq, outcome, built,
              warns, errlogs, newCalls, createCalls, done, entries>>

(***************************************************************************)
(* audit.Action and its validity (audit.go)                                *)
(***************************************************************************)
ActionCreate == "CREATE"
ActionUpdate == "UPDATE"
ActionDelete == "DELETE"
ActionRead == "READ"

IsValid(a) == a \in {ActionCreate, ActionUpdate, ActionDelete, ActionRead}

\* (mutant) a mapping that folds the case of the method first
MethodToActionFold(method) ==
  CASE method \in {"POST", "post"} -> ActionCreate
    [] method \in {"PUT", "PATCH"} -> ActionUpdate
    [] method = "DELETE" -> ActionDelete
    [] OTHER -> ActionRead

\* chiware.MethodToAction
MethodToAction(method) ==
  CASE method = "POST" -> ActionCreate
    [] method \in {"PUT", "PATCH"} -> ActionUpdate
    [] method = "DELETE" -> ActionDelete
    [] OTHER -> ActionRead

\* (mutant) a validation that lets an empty resource through
ErrWithoutResourceCheck(userID, action, resource) ==
  IF userID = "" THEN "user_id is required"
  ELSE IF ~IsValid(action) THEN "invalid action"
  ELSE ""

\* (mutant) a validation that looks at the resource first and the actor last
ErrResourceFirst(userID, action, resource) ==
  IF resource = "" THEN "resource is required"
  ELSE IF ~IsValid(action) THEN "invalid action"
  ELSE IF userID = "" THEN "user_id is required"
  ELSE ""

\* audit.NewAuditLog's validation: the error it returns, "" for none.
NewAuditLogErr(userID, action, resource) ==
  IF userID = "" THEN "user_id is required"
  ELSE IF ~IsValid(action) THEN "invalid action"
  ELSE IF resource = "" THEN "resource is required"
  ELSE ""

(***************************************************************************)
(* Inputs of the handler: what the identity extractor returns and what     *)
(* ExtractResource resolves for a completed request.                       *)
(***************************************************************************)
NilUser == [present |-> FALSE, UserID |-> ""]
ReqUsers == {NilUser, [present |-> TRUE, UserID |-> ""],
             [present |-> TRUE, UserID |-> "u1"]}
ReqResources == {"audit", "items"}
ReqMethods == {"POST"}

\* a request that has not completed yet
NoReq == [user |-> NilUser, resource |-> "<none>", method |-> "<none>"]

NoJob == [id |-> 0, userID |-> "", resource |-> "", action |-> ""]

\* the auditJob literal of the handler (fields the pipeline never reads --
\* username, correlationID, resourceID, ip, userAgent, details -- are carried
\* unchanged and left out)
auditJob(id, user, resource, method) ==
  [id |-> id, userID |-> user.UserID, resource |-> resource,
   action |-> MethodToAction(method)]

(***************************************************************************)
(* NewAuditMiddleware: the queue is empty and open, wg.Add(defaultWorkers),*)
(* every worker started.                                                   *)
(***************************************************************************)
NewAuditMiddleware ==
  /\ jobs = << >>
  /\ closed = FALSE
  /\ wg = NumWorkers
  /\ wpc = [w \in Workers |-> "idle"]
  /\ wjob = [w \in Workers |-> NoJob]

InitPipe ==
  /\ NewAuditMiddleware
  /\ spc = [c \in Closers |-> "idle"]
  /\ nextReq = 1
  /\ outcome = [i \in JobIds |-> "none"]
  /\ built = [i \in JobIds |-> NoJob]
  /\ warns = [i \in JobIds |-> 0]
  /\ errlogs = [i \in JobIds |-> 0]
  /\ newCalls = [i \in JobIds |-> 0]
  /\ createCalls = [i \in JobIds |-> 0]
  /\ done = [i \in JobIds |-> "none"]
  /\ entries = << >>

(***************************************************************************)
(* The handler's select { case m.jobs <- job: default: Warn }.  A send on  *)
(* a closed channel panics, also inside a select with a default case.      *)
(***************************************************************************)
\* (mutant) a plain blocking send, m.jobs <- job, with no default case
BlockingSend(job) ==
  /\ ~closed
  /\ Len(jobs) < QueueCap
  /\ jobs' = Append(jobs, job)
  /\ outcome' = [outcome EXCEPT ![job.id] = "enqueued"]
  /\ UNCHANGED warns

\* (mutant) a send into a channel that grows instead of being full
SendUnbounded(job) ==
  IF closed
    THEN /\ outcome' = [outcome EXCEPT ![job.id] = "panicked"]
         /\ UNCHANGED <<jobs, warns>>
    ELSE /\ jobs' = Append(jobs, job)
         /\ outcome' = [outcome EXCEPT ![job.id] = "enqueued"]
         /\ UNCHANGED warns

TrySend(job) ==
  IF closed
    THEN /\ outcome' = [outcome EXCEPT ![job.id] = "panicked"]
         /\ UNCHANGED <<jobs, warns>>
    ELSE IF Len(jobs) < QueueCap
      THEN /\ jobs' = Append(jobs, job)
           /\ outcome' = [outcome EXCEPT ![job.id] = "enqueued"]
           /\ UNCHANGED warns
      ELSE /\ warns' = [warns EXCEPT ![job.id] = @ + 1]
           /\ outcome' = [outcome EXCEPT ![job.id] = "dropped"]
           /\ UNCHANGED jobs

\* (mutant) a handler that audits the audit endpoint itself
SkipsOnlyNilUser(user, resource) == ~user.present

\* (mutant) a handler that takes a missing identity for an anonymous user
SkipsOnlyAudit(user, resource) == resource = "audit"

\* (mutant) a handler that validates the job before it enqueues it
SkipsWhatTheFactoryRejects(user, resource) ==
  ~user.present \/ resource = "audit" \/ user.UserID = "" \/ resource = ""

\* the two early returns of the handler: user == nil, resource == "audit"
Skips(user, resource) == ~user.present \/ resource = "audit"

\* The tail of the middleware function, after next.ServeHTTP returned.
Handler(user, resource, method) ==
  /\ nextReq <= MaxRequests
  /\ nextReq' = nextReq + 1
  /\ IF Skips(user, resource)
       THEN /\ outcome' = [outcome EXCEPT ![nextReq] = "skipped"]
            /\ UNCHANGED <<jobs, warns, built>>
       ELSE /\ built' = [built EXCEPT ![nextReq] =
                           auditJob(nextReq, user, resource, method)]
            /\ TrySend(auditJob(nextReq, user, resource, method))
  /\ UNCHANGED <<closed, wg, wpc, wjob, spc, errlogs, newCalls, createCalls,
                 done, entries>>

(***************************************************************************)
(* worker: for job := range m.jobs { NewAuditLog; repo.Create }            *)
(***************************************************************************)
\* (mutant) a worker that stops as soon as the channel is closed, leaving
\* the buffered jobs behind
TerminateOnClose(w) ==
  /\ wpc[w] = "idle"
  /\ closed
  /\ wpc' = [wpc EXCEPT ![w] = "terminated"]
  /\ wg' = wg - 1
  /\ UNCHANGED <<jobs, closed, wjob, spc, nextReq, outcome, built, warns,
                 errlogs, newCalls, createCalls, done, entries>>

\* (mutant) a worker without the deferred wg.Done()
TerminateWithoutDone(w) ==
  /\ wpc[w] = "idle"
  /\ jobs = << >>
  /\ closed
  /\ wpc' = [wpc EXCEPT ![w] = "terminated"]
  /\ UNCHANGED <<jobs, closed, wg, wjob, spc, nextReq, outcome, built, warns,
                 errlogs, newCalls, createCalls, done, entries>>

\* (mutant) a worker that polls the queue and stops when it finds it empty
TerminateWhenEmpty(w) ==
  /\ wpc[w] = "idle"
  /\ jobs = << >>
  /\ wpc' = [wpc EXCEPT ![w] = "terminated"]
  /\ wg' = wg - 1
  /\ UNCHANGED <<jobs, closed, wjob, spc, nextReq, outcome, built, warns,
                 errlogs, newCalls, createCalls, done, entries>>

\* the range loop ends when the channel is closed and drained; defer wg.Done()
Terminate(w) ==
  /\ wpc[w] = "idle"
  /\ jobs = << >>
  /\ closed
  /\ wpc' = [wpc EXCEPT ![w] = "terminated"]
  /\ wg' = wg - 1
  /\ UNCHANGED <<jobs, closed, wjob, spc, nextReq, outcome, built, warns,
                 errlogs, newCalls, createCalls, done, entries>>

\* (mutant) a worker that returns, instead of continuing, when the factory
\* rejects the job
ReturnOnFactoryError(w, job) ==
  /\ errlogs' = [errlogs EXCEPT ![job.id] = @ + 1]
  /\ done' = [done EXCEPT ![job.id] = "invalid"]
  /\ wpc' = [wpc EXCEPT ![w] = "terminated"]
  /\ wg' = wg - 1
  /\ UNCHANGED wjob

\* (mutant) a worker that drops a rejected job without logging the error
DiscardSilently(w, job) ==
  /\ done' = [done EXCEPT ![job.id] = "invalid"]
  /\ UNCHANGED <<errlogs, wpc, wjob, wg>>

\* what the loop body does when audit.NewAuditLog returned an error: log it
\* and continue with the next job
OnFactoryError(w, job) ==
  /\ errlogs' = [errlogs EXCEPT ![job.id] = @ + 1]
  /\ done' = [done EXCEPT ![job.id] = "invalid"]
  /\ UNCHANGED <<wpc, wjob, wg>>

\* (mutant) a receive that hands out the oldest job and leaves it buffered
ChanPeek(q) == [job |-> Head(q), rest |-> q]

\* (mutant) a receive that lets the second job of the buffer overtake
ChanRecvSecond(q) ==
  IF Len(q) >= 2
    THEN [job |-> q[2], rest |-> <<Head(q)>> \o SubSeq(q, 3, Len(q))]
    ELSE [job |-> Head(q), rest |-> Tail(q)]

\* (mutant) a receive that hands out the newest job of the buffer
ChanRecvNewest(q) == [job |-> q[Len(q)], rest |-> SubSeq(q, 1, Len(q) - 1)]

\* a receive from the buffered channel: the oldest job leaves the buffer
ChanRecv(q) == [job |-> Head(q), rest |-> Tail(q)]

\* One turn of the range loop up to the repository call: receive the head of
\* the buffer, build the entry with audit.NewAuditLog, and either log the
\* validation error and continue, or call repo.Create.
Receive(w) ==
  /\ wpc[w] = "idle"
  /\ jobs # << >>
  /\ jobs' = ChanRecv(jobs).rest
  /\ newCalls' = [newCalls EXCEPT ![ChanRecv(jobs).job.id] = @ + 1]
  /\ IF NewAuditLogErr(ChanRecv(jobs).job.userID, ChanRecv(jobs).job.action,
                       ChanRecv(jobs).job.resource) # ""
       THEN /\ OnFactoryError(w, ChanRecv(jobs).job)
            /\ UNCHANGED createCalls
       ELSE /\ createCalls' =
                 [createCalls EXCEPT ![ChanRecv(jobs).job.id] = @ + 1]
            /\ wpc' = [wpc EXCEPT ![w] = "creating"]
            /\ wjob' = [wjob EXCEPT ![w] = ChanRecv(jobs).job]
            /\ UNCHANGED <<errlogs, done, wg>>
  /\ UNCHANGED <<closed, spc, nextReq, outcome, built, warns, entries>>

\* (mutant) a worker that puts the job back in the queue for a retry when
\* repo.Create failed
RequeueOnCreateError(w) ==
  /\ errlogs' = [errlogs EXCEPT ![wjob[w].id] = @ + 1]
  /\ done' = [done EXCEPT ![wjob[w].id] = "failed"]
  /\ jobs' = Append(jobs, wjob[w])
  /\ UNCHANGED entries

\* what the worker does with the job once repo.Create returned err # nil:
\* log it and go on with the next job
OnCreateError(w) ==
  /\ errlogs' = [errlogs EXCEPT ![wjob[w].id] = @ + 1]
  /\ done' = [done EXCEPT ![wjob[w].id] = "failed"]
  /\ UNCHANGED <<jobs, entries>>

\* repo.Create returns: nil after storing the entry, or an error (a
\* repository failure, or the 5 s context deadline) with nothing stored
CreateReturn(w, res) ==
  /\ wpc[w] = "creating"
  /\ IF res = "ok"
       THEN /\ entries' = Append(entries, wjob[w])
            /\ done' = [done EXCEPT ![wjob[w].id] = "persisted"]
            /\ UNCHANGED <<errlogs, jobs>>
       ELSE OnCreateError(w)
  /\ wpc' = [wpc EXCEPT ![w] = "idle"]
  /\ wjob' = [wjob EXCEPT ![w] = NoJob]
  /\ UNCHANGED <<closed, wg, spc, nextReq, outcome, built, warns, newCalls,
                 createCalls>>

CreateResults == {"ok", "error", "timeout"}

(***************************************************************************)
(* Shutdown: close(m.jobs); m.wg.Wait()                                    *)
(***************************************************************************)
\* close(m.jobs); closing a closed channel panics
Close(c) ==
  /\ spc[c] = "idle"
  /\ IF closed
       THEN /\ spc' = [spc EXCEPT ![c] = "panicked"]
            /\ UNCHANGED closed
       ELSE /\ closed' = TRUE
            /\ spc' = [spc EXCEPT ![c] = "waiting"]
  /\ UNCHANGED <<jobs, wg, wpc, wjob, nextReq, outcome, built, warns, errlogs,
                 newCalls, createCalls, done, entries>>

\* (mutant) a Shutdown that closes the channel and returns without waiting
ReturnWithoutWait(c) ==
  /\ spc[c] = "waiting"
  /\ spc' = [spc EXCEPT ![c] = "returned"]
  /\ UNCHANGED <<jobs, closed, wg, wpc, wjob, nextReq, outcome, built, warns,
                 errlogs, newCalls, createCalls, done, entries>>

\* m.wg.Wait() returns once the counter is zero
WaitReturn(c) ==
  /\ spc[c] = "waiting"
  /\ wg = 0
  /\ spc' = [spc EXCEPT ![c] = "returned"]
  /\ UNCHANGED <<jobs, closed, wg, wpc, wjob, nextReq, outcome, built, warns,
                 errlogs, newCalls, createCalls, done, entries>>

(***************************************************************************)
(* pgxaudit.AuditPool: the transactional session injector                  *)
(***************************************************************************)
\* audit.Info values a context may carry; NoInfo is InfoFrom's nil
NoInfo == [UserID |-> "<nil>"]
InfoAlice == [UserID |-> "u1", Username |-> "alice", CorrelationID |-> "",
              Resource |-> "orders", ResourceID |-> "ord-1",
              IP |-> "10.0.0.1", UserAgent |-> "TestAgent/1.0"]
InfoBob == [UserID |-> "u2", Username |-> "bob", CorrelationID |-> "corr-2",
            Resource |-> "items", ResourceID |-> "",
            IP |-> "10.0.0.2", UserAgent |-> "curl/8"]
Infos == {NoInfo, InfoAlice, InfoBob}

ConfigKeys == {"app.user_id", "app.username", "app.correlation_id",
               "app.resource", "app.resource_id", "app.ip", "app.user_agent"}

\* (mutant) the configs map without the correlation id
ConfigsWithoutCorrelation(info) ==
  [k \in ConfigKeys \ {"app.correlation_id"} |->
     CASE k = "app.user_id" -> info.UserID
       [] k = "app.username" -> info.Username
       [] k = "app.resource" -> info.Resource
       [] k = "app.resource_id" -> info.ResourceID
       [] k = "app.ip" -> info.IP
       [] k = "app.user_agent" -> info.UserAgent]

\* the configs map literal of Exec
Configs(info) ==
  [k \in ConfigKeys |->
     CASE k = "app.user_id" -> info.UserID
       [] k = "app.username" -> info.Username
       [] k = "app.correlation_id" -> info.CorrelationID
       [] k = "app.resource" -> info.Resource
       [] k = "app.resource_id" -> info.ResourceID
       [] k = "app.ip" -> info.IP
       [] k = "app.user_agent" -> info.UserAgent]

\* a session variable that is not set ("" is a value a variable may hold)
Unset == "<unset>"
NoVars == [k \in ConfigKeys |-> Unset]
NoStmt == [via |-> "none", res |-> "none", saw |-> NoVars]

\* the results of a round trip to the database
DbResults == {"ok", "err"}

\* (mutant) a branch test that forgets ShouldSkip
InfoPresent(c) == c.info # NoInfo

\* the branch of Exec: info # nil and the skip flag not set
Attributed(c) == c.info # NoInfo /\ ~c.skip

\* no read made yet
NoRead == [kind |-> "none", ctx |-> [info |-> NoInfo, skip |-> FALSE],
           via |-> "none", saw |-> NoVars, res |-> "none", at |-> 0]

InitExec ==
  /\ rd = NoRead
  /\ xpc = "idle"
  /\ ctx = [info |-> NoInfo, skip |-> FALSE]
  /\ calls = 0
  /\ tx = "none"
  /\ begins = 0
  /\ remaining = {}
  /\ connVars = NoVars
  /\ stmt = NoStmt
  /\ applied = FALSE
  /\ ret = "none"
  /\ tag = "none"

\* a caller enters Exec with its context; the previous call has returned
ExecCall(info, skip) ==
  /\ xpc \in {"idle", "returned"}
  /\ calls < MaxCalls
  /\ calls' = calls + 1
  /\ xpc' = "entry"
  /\ ctx' = [info |-> info, skip |-> skip]
  /\ tx' = "none"
  /\ begins' = 0
  /\ remaining' = {}
  /\ stmt' = NoStmt
  /\ applied' = FALSE
  /\ ret' = "none"
  /\ tag' = "none"
  /\ UNCHANGED connVars

\* return p.pool.Exec(ctx, sql, args...): the statement runs on the pool, in
\* no transaction, and its result is the call's result
PassThrough(res) ==
  /\ xpc = "entry"
  /\ ~Attributed(ctx)
  /\ stmt' = [via |-> "pool", res |-> res, saw |-> connVars]
  /\ applied' = (res = "ok")
  /\ ret' = res
  /\ tag' = "stmt"
  /\ xpc' = "returned"
  /\ UNCHANGED <<ctx, calls, tx, begins, remaining, connVars>>

\* (mutant) an Exec that, when it cannot begin a transaction, runs the
\* statement on the pool without attribution
BeginOrFallBack(res) ==
  /\ xpc = "entry"
  /\ Attributed(ctx)
  /\ begins' = begins + 1
  /\ IF res = "ok"
       THEN /\ tx' = "open"
            /\ remaining' = DOMAIN Configs(ctx.info)
            /\ xpc' = IF DOMAIN Configs(ctx.info) = {} THEN "stmt" ELSE "set"
            /\ UNCHANGED <<ret, tag, stmt, applied>>
       ELSE /\ stmt' = [via |-> "pool", res |-> "ok", saw |-> connVars]
            /\ applied' = TRUE
            /\ ret' = "ok"
            /\ tag' = "stmt"
            /\ xpc' = "returned"
            /\ UNCHANGED <<tx, remaining>>
  /\ UNCHANGED <<ctx, calls, connVars>>

\* tx, err := p.pool.Begin(ctx); on error return pgconn.CommandTag{}, err;
\* defer tx.Rollback(ctx)
Begin(res) ==
  /\ xpc = "entry"
  /\ Attributed(ctx)
  /\ begins' = begins + 1
  /\ IF res = "ok"
       THEN /\ tx' = "open"
            /\ remaining' = DOMAIN Configs(ctx.info)
            /\ xpc' = IF DOMAIN Configs(ctx.info) = {} THEN "stmt" ELSE "set"
            /\ UNCHANGED <<ret, tag>>
       ELSE /\ ret' = "err"
            /\ tag' = "empty"
            /\ xpc' = "returned"
            /\ UNCHANGED <<tx, remaining>>
  /\ UNCHANGED <<ctx, calls, connVars, stmt, applied>>

\* (mutant) set_config($1, $2, false): the values outlive the transaction
VarsSurviveTx(v) == v

\* what is left of the session variables on the connection when the
\* transaction ends: set_config($1, $2, true) is local to the transaction,
\* so nothing
VarsAfterTx(v) == NoVars

\* (mutant) an Exec without the deferred tx.Rollback(ctx)
NoRollback == UNCHANGED <<tx, connVars>>

\* the deferred tx.Rollback(ctx) on a transaction that is still open: the
\* transaction ends without effect, and with it every value that
\* set_config(..., is_local = true) gave a session variable
Rollback ==
  /\ tx' = "rolledback"
  /\ connVars' = VarsAfterTx(connVars)

\* one turn of the range loop over configs, in the map's arbitrary order:
\* tx.Exec(ctx, "SELECT set_config($1, $2, true)", key, val)
SetConfig(key, res) ==
  /\ xpc = "set"
  /\ key \in remaining
  /\ IF res = "ok"
       THEN /\ connVars' = [connVars EXCEPT ![key] = Configs(ctx.info)[key]]
            /\ remaining' = remaining \ {key}
            /\ xpc' = IF remaining = {key} THEN "stmt" ELSE "set"
            /\ UNCHANGED <<tx, ret, tag>>
       ELSE /\ Rollback
            /\ ret' = "err"
            /\ tag' = "empty"
            /\ xpc' = "returned"
            /\ UNCHANGED remaining
  /\ UNCHANGED <<ctx, calls, begins, stmt, applied>>

\* tx.Exec(ctx, sql, args...): the statement runs inside the transaction and
\* sees the session variables in effect there
StmtInTx(res) ==
  /\ stmt' = [via |-> "tx", res |-> res, saw |-> connVars]
  /\ UNCHANGED applied

\* tag, err := tx.Exec(ctx, sql, args...); on error return it (the deferred
\* Rollback runs)
TxExec(res) ==
  /\ xpc = "stmt"
  /\ StmtInTx(res)
  /\ IF res = "ok"
       THEN /\ xpc' = "commit"
            /\ UNCHANGED <<tx, connVars, ret, tag>>
       ELSE /\ Rollback
            /\ ret' = "err"
            /\ tag' = "stmt"
            /\ xpc' = "returned"
  /\ UNCHANGED <<ctx, calls, begins, remaining>>

\* (mutant) a commit whose error is dropped
CommitIgnoringError(res) == "ok"

\* what Exec returns after tx.Commit(ctx) returned res
AfterCommit(res) == IF res = "ok" THEN "ok" ELSE "err"

\* tx.Commit(ctx): on success the statement's effect is durable; on failure
\* nothing is.  Either way the transaction is over and the transaction-local
\* session variables are gone; the deferred Rollback finds it closed.
Commit(res) ==
  /\ xpc = "commit"
  /\ tx' = IF res = "ok" THEN "committed" ELSE "rolledback"
  /\ applied' = (res = "ok")
  /\ connVars' = VarsAfterTx(connVars)
  /\ ret' = AfterCommit(res)
  /\ tag' = IF res = "ok" THEN "stmt" ELSE "empty"
  /\ xpc' = "returned"
  /\ UNCHANGED <<ctx, calls, begins, remaining, stmt>>

\* (mutant) a read that goes through the session injection of Exec
ReadAttributed(kind, info, skip, res) ==
  /\ xpc \in {"idle", "returned"}
  /\ calls < MaxCalls
  /\ calls' = calls + 1
  /\ IF Attributed([info |-> info, skip |-> skip])
       THEN /\ begins' = begins + 1
            /\ rd' = [kind |-> kind, ctx |-> [info |-> info, skip |-> skip],
                      via |-> "tx", saw |-> Configs(info), res |-> res,
                      at |-> calls + 1]
       ELSE /\ rd' = [kind |-> kind, ctx |-> [info |-> info, skip |-> skip],
                      via |-> "pool", saw |-> connVars, res |-> res,
                      at |-> calls + 1]
            /\ UNCHANGED begins
  /\ UNCHANGED <<xpc, ctx, tx, remaining, connVars, stmt, applied, ret, tag>>

\* return p.pool.Query(ctx, sql, args...) / p.pool.QueryRow(ctx, sql, args...):
\* the read runs on the pool whatever the context holds, on the connection
\* the previous call released, and sees the session variables in effect there
Read(kind, info, skip, res) ==
  /\ xpc \in {"idle", "returned"}
  /\ calls < MaxCalls
  /\ calls' = calls + 1
  /\ rd' = [kind |-> kind, ctx |-> [info |-> info, skip |-> skip],
            via |-> "pool", saw |-> connVars, res |-> res, at |-> calls + 1]
  /\ UNCHANGED <<xpc, ctx, tx, begins, remaining, connVars, stmt, applied, ret,
                 tag>>

Query(info, skip, res) == Read("Query", info, skip, res)
QueryRow(info, skip, res) == Read("QueryRow", info, skip, res)

(***************************************************************************)
(* audit.NewAuditLog (audit.go): the factory of AuditLog entries, called   *)
(* directly by a host and by the worker with the fields of an auditJob.    *)
(***************************************************************************)
UUIDs == 1..MaxBuilds

\* a Go map[string]any: nil or a set of key/value pairs; a value is a
\* scalar or a map[string]any (which may itself be a typed nil map)
NilMap == [isNil |-> TRUE, kv |-> {}]
EmptyMap == [isNil |-> FALSE, kv |-> {}]
MapOf(kv) == [isNil |-> FALSE, kv |-> kv]
Scalar == [kind |-> "scalar", m |-> NilMap]
MapValue(m) == [kind |-> "map", m |-> m]

Has(d, key) == \E p \in d.kv : p.k = key
Get(d, key) == (CHOOSE p \in d.kv : p.k = key).v

\* the details literal the handler puts in an auditJob
JobDetails == MapOf({[k |-> "status_code", v |-> Scalar],
                     [k |-> "method", v |-> Scalar]})

FUserIDs == {"", "user-1"}
FActions == {ActionCreate, ActionUpdate, ActionDelete, ActionRead,
             "", "INVALID"}
FResources == {"", "payments"}
FDetails ==
  {NilMap, EmptyMap,
   MapOf({[k |-> "status_code", v |-> Scalar]}),
   MapOf({[k |-> "changed_fields", v |-> Scalar]}),
   MapOf({[k |-> "changed_fields",
           v |-> MapValue(MapOf({[k |-> "amount", v |-> "100"]}))]}),
   MapOf({[k |-> "changed_fields", v |-> MapValue(NilMap)]})}
\* the variadic nowFn: not given, given as nil, given as a fixed clock
NowFns == {"none", "nil", "fixed"}
Methods == {"POST", "PUT", "PATCH", "DELETE", "GET", "HEAD", "OPTIONS",
            "TRACE", "", "post"}

NoTime == ""
FixedTime == "2025-01-01T00:00:00Z"
WallTimes == {"wall-t1", "wall-t2"}

Inputs(userID, action, resource, details, nowFn) ==
  [userID |-> userID, username |-> "john", correlationID |-> "corr-1",
   action |-> action, resource |-> resource, resourceID |-> "pay-123",
   ip |-> "127.0.0.1", userAgent |-> "TestAgent/1.0",
   details |-> details, nowFn |-> nowFn]

DirectInputs ==
  {Inputs(u, a, r, d, n) :
     u \in FUserIDs, a \in FActions, r \in FResources, d \in FDetails,
     n \in NowFns}

\* the arguments the worker passes for a job the handler built
JobInputs(method, userID, resource) ==
  Inputs(userID, MethodToAction(method), resource, JobDetails, "none")

NilEntry ==
  [present |-> FALSE, ID |-> 0, UserID |-> "", Username |-> "",
   CorrelationID |-> "", Action |-> "", Resource |-> "", ResourceID |-> "",
   IP |-> "", UserAgent |-> "", Details |-> NilMap,
   ChangedFields |-> NilMap, CreatedAt |-> NoTime]

NoCall == [caller |-> "none", method |-> "<none>",
           in |-> Inputs("", "", "", NilMap, "none")]

\* (mutant) a factory that never looks at nowFn
WallClockAlways(nowFn) == "wall"

\* now := time.Now; if len(nowFn) > 0 && nowFn[0] != nil { now = nowFn[0] }
ClockOf(nowFn) == IF nowFn \notin {"none", "nil"} THEN "injected" ELSE "wall"

\* what a consulted clock can return
ClockValues(by) == IF by = "injected" THEN {FixedTime} ELSE WallTimes

\* (mutant) an extraction that takes whatever is stored under the key
ChangedFieldsUnchecked(details) ==
  IF Has(details, "changed_fields")
    THEN Get(details, "changed_fields").m
    ELSE EmptyMap

\* changedFields := map[string]any{}; replaced by details["changed_fields"]
\* when that value asserts to map[string]any
ChangedFieldsOf(details) ==
  IF Has(details, "changed_fields")
       /\ Get(details, "changed_fields").kind = "map"
    THEN Get(details, "changed_fields").m
    ELSE EmptyMap

\* NewAuditLog, given what uuid.New() and now() return when it calls them
NewAuditLog(in, id, t) ==
  IF NewAuditLogErr(in.userID, in.action, in.resource) # ""
    THEN [err |-> NewAuditLogErr(in.userID, in.action, in.resource),
          entry |-> NilEntry]
    ELSE [err |-> "",
          entry |->
            [present |-> TRUE, ID |-> id, UserID |-> in.userID,
             Username |-> in.username, CorrelationID |-> in.correlationID,
             Action |-> in.action, Resource |-> in.resource,
             ResourceID |-> in.resourceID, IP |-> in.ip,
             UserAgent |-> in.userAgent,
             Details |-> IF in.details.isNil THEN EmptyMap ELSE in.details,
             ChangedFields |->
               ChangedFieldsOf(IF in.details.isNil THEN EmptyMap
                               ELSE in.details),
             CreatedAt |-> t]]

InitFact ==
  /\ fcount = 0
  /\ uuids = {}
  /\ fprior = {}
  /\ fcall = NoCall
  /\ fret = [err |-> "", entry |-> NilEntry]
  /\ fclock = [by |-> "none", t |-> NoTime]
  /\ fcreate = NilEntry

\* One call of NewAuditLog.  The validation returns before the clock is
\* chosen and before uuid.New() and now() are evaluated in the literal.
\* The worker passes the entry to repo.Create when there was no error.
NewAuditLogCall(caller, method, in) ==
  /\ fcount < MaxBuilds
  /\ fcount' = fcount + 1
  /\ fcall' = [caller |-> caller, method |-> method, in |-> in]
  /\ fprior' = fprior \cup (IF fret.entry.present THEN {fret.entry.ID} ELSE {})
  /\ IF NewAuditLogErr(in.userID, in.action, in.resource) # ""
       THEN /\ fret' = NewAuditLog(in, 0, NoTime)
            /\ fclock' = [by |-> "none", t |-> NoTime]
            /\ fcreate' = NilEntry
            /\ UNCHANGED uuids
       ELSE \E id \in UUIDs \ uuids, t \in ClockValues(ClockOf(in.nowFn)) :
              /\ fret' = NewAuditLog(in, id, t)
              /\ fclock' = [by |-> ClockOf(in.nowFn), t |-> t]
              /\ fcreate' = IF caller = "worker"
                              THEN NewAuditLog(in, id, t).entry
                              ELSE NilEntry
              /\ uuids' = uuids \cup {id}

\* a host calling the factory
DirectCall(in) == NewAuditLogCall("direct", "<none>", in)

\* the worker calling it for a job built by the handler from r.Method
WorkerCall(method, userID, resource) ==
  NewAuditLogCall("worker", method, JobInputs(method, userID, resource))

(***************************************************************************)
(* The audit context (audit.go): WithInfo, InfoFrom, WithSkipAudit,        *)
(* ShouldSkip over context.WithValue.  A context is the chain of bindings  *)
(* from context.Background() to itself; deriving a context leaves its      *)
(* parent as it was.                                                       *)
(***************************************************************************)
Background == << >>
InfoBinding(info) == [key |-> "infoKey", info |-> info, flag |-> FALSE]
SkipBinding == [key |-> "skipKey", info |-> NoInfo, flag |-> TRUE]

\* context.WithValue(ctx, key, val)
WithValue(c, binding) == Append(c, binding)
Parent(c) == SubSeq(c, 1, Len(c) - 1)

\* (mutant) a lookup that returns the binding closest to the root
RECURSIVE OldestInfo(_)
OldestInfo(c) ==
  IF c = Background THEN NoInfo
  ELSE IF Head(c).key = "infoKey" THEN Head(c).info
  ELSE OldestInfo(Tail(c))

\* InfoFrom: ctx.Value(infoKey) is the value of the nearest binding of
\* infoKey on the way to the root; nil when there is none
RECURSIVE InfoFrom(_)
InfoFrom(c) ==
  IF c = Background THEN NoInfo
  ELSE IF c[Len(c)].key = "infoKey" THEN c[Len(c)].info
  ELSE InfoFrom(Parent(c))

\* (mutant) a skip flag that an info binding attached later hides
SkipOfNewestBinding(c) ==
  IF c = Background THEN FALSE
  ELSE c[Len(c)].key = "skipKey" /\ c[Len(c)].flag

\* ShouldSkip: v, _ := ctx.Value(skipKey).(bool)
RECURSIVE ShouldSkip(_)
ShouldSkip(c) ==
  IF c = Background THEN FALSE
  ELSE IF c[Len(c)].key = "skipKey" THEN c[Len(c)].flag
  ELSE ShouldSkip(Parent(c))

NoLookup == [kind |-> "none", of |-> Background, info |-> NoInfo,
             skip |-> FALSE]

InitCtx ==
  /\ cx = Background
  /\ got = NoLookup

\* ctx = audit.WithInfo(ctx, info)
WithInfo(info) ==
  /\ Len(cx) < MaxCtxDepth
  /\ cx' = WithValue(cx, InfoBinding(info))
  /\ UNCHANGED got

\* ctx = audit.WithSkipAudit(ctx)
WithSkipAudit ==
  /\ Len(cx) < MaxCtxDepth
  /\ cx' = WithValue(cx, SkipBinding)
  /\ UNCHANGED got

\* the caller goes on with the context it derived cx from
UseParent ==
  /\ cx # Background
  /\ cx' = Parent(cx)
  /\ UNCHANGED got

InfoFromCall ==
  /\ got' = [kind |-> "InfoFrom", of |-> cx, info |-> InfoFrom(cx),
             skip |-> FALSE]
  /\ UNCHANGED cx

ShouldSkipCall ==
  /\ got' = [kind |-> "ShouldSkip", of |-> cx, info |-> NoInfo,
             skip |-> ShouldSkip(cx)]
  /\ UNCHANGED cx

(***************************************************************************)
(* Contexts as objects (audit.go over package context): every WithValue    *)
(* allocates a context that points to its parent, so one context can have  *)
(* several derivations; InfoFrom hands out a pointer to a local copy of    *)
(* the stored Info.                                                        *)
(***************************************************************************)
CtxIds == 0..Len(heap)

\* (mutant) a WithValue that stores the binding in the parent itself
StoreInParent(ns, parent, binding) ==
  IF parent = 0
    THEN Append(ns, [parent |-> 0, binding |-> binding])
    ELSE [ns EXCEPT ![parent].binding = binding]

\* context.WithValue(parent, key, val): a new context; the parent is not
\* written
NewContext(ns, parent, binding) ==
  Append(ns, [parent |-> parent, binding |-> binding])

\* the bindings on the way from Background to context n
RECURSIVE ChainOf(_, _)
ChainOf(ns, n) ==
  IF n = 0 THEN Background
  ELSE WithValue(ChainOf(ns, ns[n].parent), ns[n].binding)

InfoAt(ns, n) == InfoFrom(ChainOf(ns, n))
SkipAt(ns, n) == ShouldSkip(ChainOf(ns, n))

\* the context that holds the infoKey binding context n reads, 0 for none
RECURSIVE Holder(_, _)
Holder(ns, n) ==
  IF n = 0 THEN 0
  ELSE IF ns[n].binding.key = "infoKey" THEN n
  ELSE Holder(ns, ns[n].parent)

NoPtr == [live |-> FALSE, of |-> 0, val |-> NoInfo, shared |-> FALSE]

\* (mutant) an InfoFrom that returns a pointer to the stored value
PointerToStored(ns, n) ==
  [live |-> InfoAt(ns, n) # NoInfo, of |-> n, val |-> InfoAt(ns, n),
   shared |-> TRUE]

\* i, ok := ctx.Value(infoKey).(Info); return &i -- the address of a copy
PointerToCopy(ns, n) ==
  [live |-> InfoAt(ns, n) # NoInfo, of |-> n, val |-> InfoAt(ns, n),
   shared |-> FALSE]

\* what a caller writes through the pointer it got
InfoMallory == [UserID |-> "u9", Username |-> "mallory", CorrelationID |-> "",
                Resource |-> "orders", ResourceID |-> "", IP |-> "10.9.9.9",
                UserAgent |-> "curl/8"]

InitTree ==
  /\ heap = << >>
  /\ snap = << >>
  /\ ptr = NoPtr

\* the reads of a context at the moment it is returned to the caller
ReadsOf(ns, n) == [info |-> InfoAt(ns, n), skip |-> SkipAt(ns, n)]

\* child := audit.WithInfo(parent, info), for any context made so far
WithInfoOn(parent, info) ==
  /\ Len(snap) < MaxNodes
  /\ parent \in CtxIds
  /\ heap' = NewContext(heap, parent, InfoBinding(info))
  /\ snap' = Append(snap, ReadsOf(heap', Len(heap')))
  /\ UNCHANGED ptr

\* child := audit.WithSkipAudit(parent)
WithSkipAuditOn(parent) ==
  /\ Len(snap) < MaxNodes
  /\ parent \in CtxIds
  /\ heap' = NewContext(heap, parent, SkipBinding)
  /\ snap' = Append(snap, ReadsOf(heap', Len(heap')))
  /\ UNCHANGED ptr

\* p := audit.InfoFrom(ctx)
InfoFromOn(n) ==
  /\ n \in CtxIds
  /\ ptr' = PointerToCopy(heap, n)
  /\ UNCHANGED <<heap, snap>>

\* *p = v: the caller changes the Info it was given
WriteThrough(v) ==
  /\ ptr.live
  /\ ptr.val # v
  /\ ptr' = [ptr EXCEPT !.val = v]
  /\ heap' = IF ptr.shared
               THEN [heap EXCEPT ![Holder(heap, ptr.of)].binding.info = v]
               ELSE heap
  /\ UNCHANGED snap

(***************************************************************************)
(* PostgresRepo.List (pgxaudit/repository.go): one SELECT with the six     *)
(* optional filters, the window count as total, ORDER BY created_at DESC, *)
(* LIMIT and OFFSET; total is scanned from the rows of the page.           *)
(***************************************************************************)
RowUsers == {"u1", "u2"}
NoTimeBound == [isNil |-> TRUE, t |-> 0]
TimeBounds == {NoTimeBound, [isNil |-> FALSE, t |-> 2]}
\* "" stands for a filter that is not set
FilterUsers == {"", "u1", "u2"}
Limits == 0..MaxRows
Offsets == 0..MaxRows
QueryResults == {"ok", "error"}

AuditFilters(userID, from, to, limit, offset) ==
  [UserID |-> userID, CorrelationID |-> "", Resource |-> "", Action |-> "",
   From |-> from, To |-> to, Limit |-> limit, Offset |-> offset]

\* nullString: nil for the empty string
nullString(str) == [isNil |-> str = "", s |-> str]

\* the WHERE clause
Matches(r, f) ==
  /\ nullString(f.UserID).isNil \/ r.user_id = f.UserID
  /\ nullString(f.CorrelationID).isNil \/ r.correlation_id = f.CorrelationID
  /\ nullString(f.Resource).isNil \/ r.resource = f.Resource
  /\ nullString(f.Action).isNil \/ r.action = f.Action
  /\ f.From.isNil \/ r.created_at >= f.From.t
  /\ f.To.isNil \/ r.created_at <= f.To.t

\* ORDER BY created_at DESC
RECURSIVE OrderByCreatedAtDesc(_)
OrderByCreatedAtDesc(rows) ==
  IF rows = {} THEN << >>
  ELSE LET top == CHOOSE r \in rows :
                    \A q \in rows : q.created_at <= r.created_at
       IN  <<top>> \o OrderByCreatedAtDesc(rows \ {top})

\* LIMIT $7 OFFSET $8
LimitOffset(sorted, limit, offset) ==
  SubSeq(sorted, offset + 1,
         IF offset + limit < Len(sorted) THEN offset + limit ELSE Len(sorted))

\* the rows the query returns: every row of the page carries the window
\* count of the filtered set
Select(rows, f) ==
  LET matching == {r \in rows : Matches(r, f)}
      page == LimitOffset(OrderByCreatedAtDesc(matching), f.Limit, f.Offset)
  IN  [k \in 1..Len(page) |->
         [row |-> page[k], total |-> Cardinality(matching)]]

\* for rows.Next() { scanAuditLogWithTotal(rows, &total); append }
RECURSIVE ScanTotal(_, _)
ScanTotal(result, total) ==
  IF result = << >> THEN total
  ELSE ScanTotal(Tail(result), Head(result).total)

ScanItems(result) == [k \in 1..Len(result) |-> result[k].row]

NoList == [kind |-> "none", f |-> AuditFilters("", NoTimeBound, NoTimeBound, 0, 0),
           of |-> {}, items |-> << >>, total |-> 0, err |-> ""]

InitList ==
  /\ table = {}
  /\ lst = NoList

\* a committed INSERT of Create: the next entry, stamped by a later clock
Insert(user) ==
  /\ Cardinality(table) < MaxRows
  /\ table' = table \cup
       {[id |-> Cardinality(table) + 1, user_id |-> user,
         correlation_id |-> "corr-1", action |-> ActionCreate,
         resource |-> "payments", created_at |-> Cardinality(table) + 1]}
  /\ UNCHANGED lst

\* List(ctx, f): var items; var total int; the loop over the rows
List(f, res) ==
  /\ lst' = IF res = "error"
              THEN [kind |-> "List", f |-> f, of |-> table, items |-> << >>,
                    total |-> 0, err |-> "listing audit log entries"]
              ELSE LET result == Select(table, f)
                   IN  [kind |-> "List", f |-> f, of |-> table,
                        items |-> ScanItems(result),
                        total |-> ScanTotal(result, 0),
                        err |-> ""]
  /\ UNCHANGED table

(***************************************************************************)
(* One request through the middleware function (chiware/middleware.go,     *)
(* Handler): the response writer is wrapped, next.ServeHTTP runs and may   *)
(* write a status and a body, and the tail builds the job from what the    *)
(* wrapper recorded.                                                       *)
(***************************************************************************)
StatusOK == 200
HttpCodes == {204, 500}
HttpMethods == {"DELETE", "GET"}

NoWriter == [code |-> 0, wroteHeader |-> FALSE]
NoDetails == [present |-> FALSE, status_code |-> 0, method |-> ""]

InitHttp ==
  /\ hn = 0
  /\ hpc = "idle"
  /\ hreq = NoReq
  /\ ww = NoWriter
  /\ sent = 0
  /\ hjob = NoDetails
  /\ hbuilt = 0

\* ww := NewWrapResponseWriter(w, r.ProtoMajor); next.ServeHTTP(ww, r) is
\* entered
Serve(user, resource, method) ==
  /\ hpc \in {"idle", "done", "panicked"}
  /\ hn < MaxServed
  /\ hn' = hn + 1
  /\ hpc' = "serving"
  /\ hreq' = [user |-> user, resource |-> resource, method |-> method]
  /\ ww' = NoWriter
  /\ sent' = 0
  /\ hjob' = NoDetails
  /\ hbuilt' = 0

\* the wrapped handler calls w.WriteHeader(code): the first status written
\* is the one the wrapper records and the one sent
WriteHeader(code) ==
  /\ hpc = "serving"
  /\ ww' = IF ww.wroteHeader THEN ww
           ELSE [code |-> code, wroteHeader |-> TRUE]
  /\ sent' = IF sent = 0 THEN code ELSE sent
  /\ UNCHANGED <<hn, hpc, hreq, hjob, hbuilt>>

\* the wrapped handler calls w.Write: a body written before any status
\* writes status 200 first
WriteBody ==
  /\ hpc = "serving"
  /\ ww' = IF ww.wroteHeader THEN ww
           ELSE [code |-> StatusOK, wroteHeader |-> TRUE]
  /\ sent' = IF sent = 0 THEN StatusOK ELSE sent
  /\ UNCHANGED <<hn, hpc, hreq, hjob, hbuilt>>

\* next.ServeHTTP returns
NextReturns ==
  /\ hpc = "serving"
  /\ hpc' = "returned"
  /\ UNCHANGED <<hn, hreq, ww, sent, hjob, hbuilt>>

\* next.ServeHTTP panics: the middleware function is unwound, its tail does
\* not run
NextPanics ==
  /\ hpc = "serving"
  /\ hpc' = "panicked"
  /\ UNCHANGED <<hn, hreq, ww, sent, hjob, hbuilt>>

\* (mutant) a tail that records the wrapper's status as it is
StatusAsRecorded(w) == w.code

\* status := ww.Status(); if status == 0 { status = http.StatusOK }
StatusOf(w) == IF w.code = 0 THEN StatusOK ELSE w.code

\* details: map[string]any{"status_code": status, "method": r.Method}
DetailsOf(status, method) ==
  [present |-> TRUE, status_code |-> status, method |-> method]

\* the tail of the middleware function: the two early returns, else the job
\* is built and handed to the select; the server sends 200 for a handler
\* that wrote nothing
AfterNext ==
  /\ hpc = "returned"
  /\ hpc' = "done"
  /\ IF Skips(hreq.user, hreq.resource)
       THEN UNCHANGED <<hjob, hbuilt>>
       ELSE /\ hjob' = DetailsOf(StatusOf(ww), hreq.method)
            /\ hbuilt' = hbuilt + 1
  /\ sent' = IF sent = 0 THEN StatusOK ELSE sent
  /\ UNCHANGED <<hn, hreq, ww>>

(***************************************************************************)
(* PostgresRepo.Create (pgxaudit/repository.go) on a pool that is the      *)
(* session injector, called by a worker of the middleware with the entry   *)
(* it built for a job, or by a host with an entry and a context of its own.*)
(***************************************************************************)
\* a value encoding/json cannot serialize (a channel)
Chan == [kind |-> "chan", m |-> NilMap]

\* the documents a host puts in an entry
RepoDocs ==
  {NilMap, EmptyMap,
   MapOf({[k |-> "amount", v |-> Scalar]}),
   MapOf({[k |-> "bad", v |-> Chan]})}

\* json.Marshal of a map[string]any of scalars: null for a nil map, an
\* object otherwise, an error when a value has no JSON form
Marshal(d) ==
  IF \E p \in d.kv : p.v.kind = "chan"
    THEN [ok |-> FALSE, null |-> FALSE, obj |-> {}]
    ELSE [ok |-> TRUE, null |-> d.isNil, obj |-> {p.k : p \in d.kv}]

\* context.WithTimeout(parent, 5*time.Second): a derived context that binds
\* neither infoKey nor skipKey
TimeoutBinding == [key |-> "deadline", info |-> NoInfo, flag |-> FALSE]
WithTimeout(c) == WithValue(c, TimeoutBinding)

\* the audit contexts a request or a host call can carry
RepoCtxs ==
  {Background,
   WithValue(Background, InfoBinding(InfoAlice)),
   WithValue(Background, SkipBinding),
   WithValue(WithValue(Background, InfoBinding(InfoAlice)), SkipBinding)}

\* (mutant) a worker that derives its context from the request's
CtxOfRequest(request) == WithTimeout(request)

\* ctx, cancel := context.WithTimeout(context.Background(), 5*time.Second)
WorkerCtx(request) == WithTimeout(Background)

\* the branch AuditPool.Exec takes for a context
ExecPath(c) ==
  IF Attributed([info |-> InfoFrom(c), skip |-> ShouldSkip(c)])
    THEN "tx" ELSE "pass"

NoErr == [msg |-> "", cause |-> ""]

InitRepo ==
  /\ rn = 0
  /\ rpc = "idle"
  /\ rcaller = "none"
  /\ rreq = Background
  /\ rctx = Background
  /\ rmade = NilEntry
  /\ rentry = NilEntry
  /\ rexecs = << >>
  /\ rret = NoErr
  /\ rstored = FALSE

\* a caller has an entry and a context and is about to call Create
Prepare(caller, request, c, entry) ==
  /\ rpc \in {"idle", "created"}
  /\ rn < MaxCreates
  /\ rn' = rn + 1
  /\ rpc' = "built"
  /\ rcaller' = caller
  /\ rreq' = request
  /\ rctx' = c
  /\ rmade' = entry
  /\ rentry' = entry
  /\ rexecs' = << >>
  /\ rret' = NoErr
  /\ rstored' = FALSE

\* the worker's loop body up to the call of m.repo.Create(ctx, entry), for
\* a job of a request that carried the context request
WorkerBuilds(request, method, t) ==
  Prepare("worker", request, WorkerCtx(request),
          NewAuditLog(JobInputs(method, "u1", "items"), rn + 1, t).entry)

\* a host with an AuditLog literal of its own
HostBuilds(c, details, changed) ==
  Prepare("host", c, c,
          [NilEntry EXCEPT !.present = TRUE, !.ID = rn + 1,
                           !.UserID = "user-1", !.Username = "alice",
                           !.Action = ActionCreate, !.Resource = "orders",
                           !.Details = details, !.ChangedFields = changed,
                           !.CreatedAt = FixedTime])

\* (mutant) a Create that returns nil whatever Exec returned
ExecErrorDropped(res) == NoErr

\* if err != nil { return fmt.Errorf("inserting audit log entry: %w", err) }
ErrOfExec(res) ==
  IF res = "ok" THEN NoErr
  ELSE [msg |-> "inserting audit log entry", cause |-> "exec error"]

\* (mutant) a Create that fills in the entry's missing changed fields
EntryWithChangedFields(b) ==
  [b EXCEPT !.ChangedFields = IF @.isNil THEN EmptyMap ELSE @]

\* the entry after Create: b is only read
EntryAfterCreate(b) == b

\* changedFields := b.ChangedFields; if changedFields == nil { ... = {} }
LocalChangedFields(b) ==
  IF b.ChangedFields.isNil THEN EmptyMap ELSE b.ChangedFields

\* PostgresRepo.Create(ctx, b), the pool answering the Exec with res
Create(res) ==
  /\ rpc = "built"
  /\ rpc' = "created"
  /\ rentry' = EntryAfterCreate(rentry)
  /\ IF ~Marshal(rentry.Details).ok
       THEN /\ rret' = [msg |-> "serializing details",
                        cause |-> "json: unsupported type"]
            /\ UNCHANGED <<rexecs, rstored>>
       ELSE IF ~Marshal(LocalChangedFields(rentry)).ok
         THEN /\ rret' = [msg |-> "serializing changed_fields",
                          cause |-> "json: unsupported type"]
              /\ UNCHANGED <<rexecs, rstored>>
         ELSE /\ rexecs' = Append(rexecs,
                             [ctx |-> rctx, path |-> ExecPath(rctx),
                              id |-> rentry.ID,
                              details |-> Marshal(rentry.Details),
                              changed |->
                                Marshal(LocalChangedFields(rentry))])
              /\ rret' = ErrOfExec(res)
              /\ rstored' = (res = "ok")
  /\ UNCHANGED <<rn, rcaller, rreq, rctx, rmade>>

vars == <<pipeVars, execVars, readVars, reqVars, factVars, ctxVars, listVars,
          treeVars,
          httpVars,
          repoVars>>

\* what the pipeline leaves alone, what the injector leaves alone, and what
\* the factory leaves alone
offPipe == <<execVars, readVars, factVars, ctxVars, listVars, treeVars,
  httpVars,
  repoVars>>
offExec == <<pipeVars, reqVars, factVars, ctxVars, listVars, treeVars,
  httpVars,
  repoVars>>
offFact == <<pipeVars, reqVars, execVars, readVars, ctxVars, listVars, treeVars,
  httpVars,
  repoVars>>
offCtx == <<pipeVars, reqVars, execVars, readVars, factVars, listVars, treeVars,
  httpVars,
  repoVars>>
offList == <<pipeVars, reqVars, execVars, readVars, factVars, ctxVars, treeVars,
  httpVars,
  repoVars>>
offTree == <<pipeVars, reqVars, execVars, readVars, factVars, ctxVars, listVars,
  httpVars,
  repoVars>>
offHttp == <<pipeVars, execVars, readVars, reqVars, factVars, ctxVars,
  listVars, treeVars,
  repoVars>>
offRepo == <<pipeVars, execVars, readVars, reqVars, factVars, ctxVars,
  listVars, treeVars, httpVars>>

InitReq == reqs = [i \in JobIds |-> NoReq]

Init == InitPipe /\ InitExec /\ InitReq /\ InitFact /\ InitCtx
        /\ InitList /\ InitTree /\ InitHttp /\ InitRepo

\* the pipeline: requests, workers and Shutdown calls interleave freely; no
\* Exec call is made
Next ==
  \/ \E u \in ReqUsers, r \in ReqResources, m \in ReqMethods :
       Handler(u, r, m) /\ UNCHANGED <<offPipe, reqVars>>
  \/ \E w \in Workers : Receive(w) /\ UNCHANGED <<offPipe, reqVars>>
  \/ \E w \in Workers, res \in CreateResults :
       CreateReturn(w, res) /\ UNCHANGED <<offPipe, reqVars>>
  \/ \E w \in Workers : Terminate(w) /\ UNCHANGED <<offPipe, reqVars>>
  \/ \E c \in Closers : Close(c) /\ UNCHANGED <<offPipe, reqVars>>
  \/ \E c \in Closers : WaitReturn(c) /\ UNCHANGED <<offPipe, reqVars>>

Spec == Init /\ [][Next]_vars

\* The pipeline under the scheduling of the Go runtime: a worker that can
\* receive or leave its loop eventually does, and a Shutdown whose wg.Wait()
\* can return eventually returns.  Nothing is assumed about repo.Create
\* returning, nor about requests arriving.
Fairness ==
  /\ \A w \in Workers :
       /\ WF_vars(Receive(w) /\ UNCHANGED <<offPipe, reqVars>>)
       /\ WF_vars(Terminate(w) /\ UNCHANGED <<offPipe, reqVars>>)
  /\ \A c \in Closers :
       WF_vars(WaitReturn(c) /\ UNCHANGED <<offPipe, reqVars>>)

\* the requests of the liveness analysis: authenticated, for one resource
LiveUsers == {[present |-> TRUE, UserID |-> "u1"]}
LiveResources == {"items"}

NextLive ==
  \/ \E u \in LiveUsers, r \in LiveResources, m \in ReqMethods :
       Handler(u, r, m) /\ UNCHANGED <<offPipe, reqVars>>
  \/ \E w \in Workers : Receive(w) /\ UNCHANGED <<offPipe, reqVars>>
  \/ \E w \in Workers, res \in CreateResults :
       CreateReturn(w, res) /\ UNCHANGED <<offPipe, reqVars>>
  \/ \E w \in Workers : Terminate(w) /\ UNCHANGED <<offPipe, reqVars>>
  \/ \E c \in Closers : Close(c) /\ UNCHANGED <<offPipe, reqVars>>
  \/ \E c \in Closers : WaitReturn(c) /\ UNCHANGED <<offPipe, reqVars>>

SpecLive == Init /\ [][NextLive]_vars /\ Fairness

\* the pipeline with the inputs of every completed request kept: requests
\* without an identity, for the audit endpoint, and audited ones
SkipUsers == {NilUser, [present |-> TRUE, UserID |-> "u1"]}

HandlerOf(user, resource, method) ==
  /\ Handler(user, resource, method)
  /\ reqs' = [reqs EXCEPT ![nextReq] =
               [user |-> user, resource |-> resource, method |-> method]]

NextReq ==
  \/ \E u \in SkipUsers, r \in ReqResources, m \in ReqMethods :
       HandlerOf(u, r, m) /\ UNCHANGED offPipe
  \/ \E w \in Workers : Receive(w) /\ UNCHANGED <<offPipe, reqVars>>
  \/ \E w \in Workers, res \in CreateResults :
       CreateReturn(w, res) /\ UNCHANGED <<offPipe, reqVars>>
  \/ \E w \in Workers : Terminate(w) /\ UNCHANGED <<offPipe, reqVars>>
  \/ \E c \in Closers : Close(c) /\ UNCHANGED <<offPipe, reqVars>>
  \/ \E c \in Closers : WaitReturn(c) /\ UNCHANGED <<offPipe, reqVars>>

SpecReq == Init /\ [][NextReq]_vars

\* the injector: Exec calls, one after another on a pool of one connection;
\* the pipeline is left as constructed
NextExec ==
  \/ \E i \in Infos, s \in BOOLEAN :
       ExecCall(i, s) /\ UNCHANGED <<offExec, readVars>>
  \/ \E res \in DbResults : PassThrough(res) /\ UNCHANGED <<offExec, readVars>>
  \/ \E res \in DbResults : Begin(res) /\ UNCHANGED <<offExec, readVars>>
  \/ \E k \in ConfigKeys, res \in DbResults :
       SetConfig(k, res) /\ UNCHANGED <<offExec, readVars>>
  \/ \E res \in DbResults : TxExec(res) /\ UNCHANGED <<offExec, readVars>>
  \/ \E res \in DbResults : Commit(res) /\ UNCHANGED <<offExec, readVars>>
  \/ \E i \in Infos, s \in BOOLEAN, res \in DbResults :
       Query(i, s, res) /\ UNCHANGED offExec
  \/ \E i \in Infos, s \in BOOLEAN, res \in DbResults :
       QueryRow(i, s, res) /\ UNCHANGED offExec

SpecExec == Init /\ [][NextExec]_vars

\* the factory: direct calls and worker calls, one after the other
NextFact ==
  \/ \E in \in DirectInputs : DirectCall(in) /\ UNCHANGED offFact
  \/ \E m \in Methods, u \in FUserIDs, r \in FResources :
       WorkerCall(m, u, r) /\ UNCHANGED offFact

SpecFact == Init /\ [][NextFact]_vars

\* contexts derived and read in any order
NextCtx ==
  \/ \E info \in Infos \ {NoInfo} : WithInfo(info) /\ UNCHANGED offCtx
  \/ WithSkipAudit /\ UNCHANGED offCtx
  \/ UseParent /\ UNCHANGED offCtx
  \/ InfoFromCall /\ UNCHANGED offCtx
  \/ ShouldSkipCall /\ UNCHANGED offCtx

SpecCtx == Init /\ [][NextCtx]_vars

\* requests served one after another, each by a handler that writes any
\* statuses and bodies, returns or panics
NextHttp ==
  \/ \E u \in ReqUsers, r \in ReqResources, m \in HttpMethods :
       Serve(u, r, m) /\ UNCHANGED offHttp
  \/ \E code \in HttpCodes : WriteHeader(code) /\ UNCHANGED offHttp
  \/ WriteBody /\ UNCHANGED offHttp
  \/ NextReturns /\ UNCHANGED offHttp
  \/ NextPanics /\ UNCHANGED offHttp
  \/ AfterNext /\ UNCHANGED offHttp

SpecHttp == Init /\ [][NextHttp]_vars

\* entries built by a worker or by a host and passed to Create
NextRepo ==
  \/ \E c \in RepoCtxs, m \in HttpMethods, t \in WallTimes :
       WorkerBuilds(c, m, t) /\ UNCHANGED offRepo
  \/ \E c \in RepoCtxs, d \in RepoDocs, ch \in RepoDocs :
       HostBuilds(c, d, ch) /\ UNCHANGED offRepo
  \/ \E res \in DbResults : Create(res) /\ UNCHANGED offRepo

SpecRepo == Init /\ [][NextRepo]_vars

\* the running pipeline (no Shutdown) with requests the factory will reject:
\* an identity with an empty UserID, a route that resolves to the empty
\* resource name
UnvalidatedRequests ==
  {[user |-> [present |-> TRUE, UserID |-> ""], resource |-> "items"],
   [user |-> [present |-> TRUE, UserID |-> "u1"], resource |-> ""],
   [user |-> [present |-> TRUE, UserID |-> "u1"], resource |-> "items"]}

NextUnvalidated ==
  \/ \E rq \in UnvalidatedRequests, m \in ReqMethods :
       HandlerOf(rq.user, rq.resource, m) /\ UNCHANGED offPipe
  \/ \E w \in Workers : Receive(w) /\ UNCHANGED <<offPipe, reqVars>>
  \/ \E w \in Workers, res \in CreateResults :
       CreateReturn(w, res) /\ UNCHANGED <<offPipe, reqVars>>

SpecUnvalidated == Init /\ [][NextUnvalidated]_vars

\* contexts derived from any context made so far, read, and the values read
\* written to
NextTree ==
  \/ \E n \in 0..MaxNodes, info \in {InfoAlice, InfoBob} :
       WithInfoOn(n, info) /\ UNCHANGED offTree
  \/ \E n \in 0..MaxNodes : WithSkipAuditOn(n) /\ UNCHANGED offTree
  \/ \E n \in 0..MaxNodes : InfoFromOn(n) /\ UNCHANGED offTree
  \/ WriteThrough(InfoMallory) /\ UNCHANGED offTree

SpecTree == Init /\ [][NextTree]_vars

\* the repository: inserts and List calls in any order
NextList ==
  \/ \E u \in RowUsers : Insert(u) /\ UNCHANGED offList
  \/ \E u \in FilterUsers, from \in TimeBounds, l \in Limits, o \in Offsets,
        res \in QueryResults :
       List(AuditFilters(u, from, NoTimeBound, l, o), res)
       /\ UNCHANGED offList

SpecList == Init /\ [][NextList]_vars

(***************************************************************************)
(* Properties of the pipeline                                              *)
(***************************************************************************)
Enqueued == {i \in JobIds : outcome[i] = "enqueued"}
Valid(i) == NewAuditLogErr(built[i].userID, built[i].action, built[i].resource) = ""
InQueue(i) == \E k \in 1..Len(jobs) : jobs[k].id = i
HeldBy(w, i) == wpc[w] = "creating" /\ wjob[w].id = i
Stored(i) == {k \in 1..Len(entries) : entries[k].id = i}
ShutdownReturned == \E c \in Closers : spc[c] = "returned"

\* the step of the handler that reaches the select with a job
EnqueueStep ==
  /\ nextReq <= MaxRequests
  /\ nextReq' = nextReq + 1
  /\ built'[nextReq] # NoJob

\* C1: while the queue is open the handler's enqueue step is never blocked --
\* it can be taken in every state, whatever the queue holds and whatever the
\* workers do -- and one step ends it: the job is appended to the queue, or
\* the queue was at capacity and is left as it was, and the handler returned
\* (enqueued or dropped).
C1_EnqueueNeverBlocks ==
  /\ [](~closed /\ nextReq <= MaxRequests =>
          \A u \in ReqUsers, r \in ReqResources, m \in ReqMethods :
            ENABLED Handler(u, r, m))
  /\ [][~closed /\ EnqueueStep =>
          \/ /\ outcome'[nextReq] = "enqueued"
             /\ Len(jobs) < QueueCap
             /\ jobs' = Append(jobs, built'[nextReq])
          \/ /\ outcome'[nextReq] = "dropped"
             /\ Len(jobs) = QueueCap
             /\ jobs' = jobs]_vars

\* C1 witness: a job was dropped while the queue is open and at capacity, one
\* worker is inside repo.Create and another is idle
C1_Witness ==
  /\ ~closed
  /\ Len(jobs) = QueueCap
  /\ \E i \in JobIds : outcome[i] = "dropped"
  /\ \E w \in Workers : wpc[w] = "creating"
  /\ \E w \in Workers : wpc[w] = "idle"

\* C2 (as claimed): an enqueue attempted while the queue has no free capacity
\* drops the incoming job -- one warning for it, the buffered jobs unchanged,
\* the handler returning normally -- and no repo.Create call is ever made for
\* a job that was not placed in the queue.
C2_DropOnFull ==
  /\ [][EnqueueStep /\ Len(jobs) = QueueCap =>
          /\ outcome'[nextReq] = "dropped"
          /\ warns'[nextReq] = 1
          /\ jobs' = jobs]_vars
  /\ [](\A i \in JobIds : outcome[i] # "enqueued" =>
          createCalls[i] = 0 /\ newCalls[i] = 0 /\ Stored(i) = {})

\* C2, on the open queue: the drop-on-full half of the claim holds while the
\* queue is open; only the closed queue departs from it.
C2_DropOnFullWhileOpen ==
  [][~closed /\ EnqueueStep /\ Len(jobs) = QueueCap =>
       /\ outcome'[nextReq] = "dropped"
       /\ warns'[nextReq] = 1
       /\ jobs' = jobs]_vars

\* C3: once Shutdown has returned, if every enqueued job was valid and no
\* Create call failed, the repository holds exactly one entry per enqueued
\* job and nothing else.
C3_ExactlyNEntries ==
  (/\ ShutdownReturned
   /\ \A i \in Enqueued : Valid(i)
   /\ \A i \in JobIds : done[i] # "failed")
  => /\ Len(entries) = Cardinality(Enqueued)
     /\ \A i \in Enqueued :
          /\ Cardinality(Stored(i)) = 1
          /\ \A k \in Stored(i) : entries[k] = built[i]

\* C3 witness: Shutdown returned after N = QueueCap or more valid jobs, all
\* enqueued and all stored
C3_Witness ==
  /\ ShutdownReturned
  /\ Cardinality(Enqueued) >= QueueCap
  /\ \A i \in Enqueued : Valid(i)
  /\ Len(entries) = Cardinality(Enqueued)

\* C4: once Shutdown has returned, every job that was placed in the queue has
\* been attempted: the factory was called for it and either rejected it, or
\* repo.Create was called for it and has returned -- whatever happened to
\* the other jobs.
C4_EnqueuedAreAttempted ==
  ShutdownReturned =>
    \A i \in Enqueued :
      /\ newCalls[i] = 1
      /\ IF Valid(i)
           THEN createCalls[i] = 1 /\ done[i] \in {"persisted", "failed"}
           ELSE createCalls[i] = 0 /\ done[i] = "invalid"

\* C4 witness: Shutdown returned after one job was rejected by the factory,
\* one failed in the repository and one was stored
C4_Witness ==
  /\ ShutdownReturned
  /\ \E i, j, k \in Enqueued :
       done[i] = "invalid" /\ done[j] = "failed" /\ done[k] = "persisted"

\* C5 (as claimed): the handler's enqueue step never crashes, in any reachable
\* state, the states after Shutdown closed the queue included.
C5_RequestPathNeverFails ==
  \A i \in JobIds : outcome[i] # "panicked"

\* C6: repo.Create is called at most once for a job; a job whose Create
\* failed was logged once, is neither back in the queue nor held by a worker
\* nor stored, and its request still ended as a normal enqueue.
C6_CreateAtMostOnce ==
  \A i \in JobIds :
    /\ createCalls[i] <= 1
    /\ done[i] = "failed" =>
         /\ createCalls[i] = 1
         /\ errlogs[i] = 1
         /\ ~InQueue(i)
         /\ \A w \in Workers : ~HeldBy(w, i)
         /\ Stored(i) = {}
         /\ outcome[i] = "enqueued"

\* C6 witness: a job's Create failed and the worker that held it has taken
\* the next job
C6_Witness ==
  \E i, j \in JobIds :
    /\ done[i] = "failed"
    /\ i # j
    /\ \E w \in Workers : HeldBy(w, j)

\* C7: when Shutdown has returned every worker is terminated and the queue
\* is empty.
C7_ShutdownJoinsWorkers ==
  ShutdownReturned =>
    /\ \A w \in Workers : wpc[w] = "terminated"
    /\ jobs = << >>

\* C7 witness: Shutdown returned after the workers drained jobs that were
\* still buffered when the queue was closed
C7_Witness ==
  /\ ShutdownReturned
  /\ Cardinality({i \in JobIds : done[i] # "none"}) >= QueueCap

(***************************************************************************)
(* Properties of the injector                                              *)
(***************************************************************************)
\* the call's context carries an audit Info and no skip flag
ActiveAudit == ctx.info # NoInfo /\ ~ctx.skip
PastEntry == xpc \in {"set", "stmt", "commit", "returned"}

\* the session variables hold the seven fields of the context's Info
SawAllSeven(v) ==
  /\ v["app.user_id"] = ctx.info.UserID
  /\ v["app.username"] = ctx.info.Username
  /\ v["app.correlation_id"] = ctx.info.CorrelationID
  /\ v["app.resource"] = ctx.info.Resource
  /\ v["app.resource_id"] = ctx.info.ResourceID
  /\ v["app.ip"] = ctx.info.IP
  /\ v["app.user_agent"] = ctx.info.UserAgent

\* C8: an Exec with an Info and no skip flag begins exactly one transaction;
\* the statement is never sent outside it, and when it is sent all seven
\* session variables hold the Info's values in that transaction; the
\* transaction is committed only after the statement succeeded.
C8_AttributedWriteInOneTx ==
  ActiveAudit /\ PastEntry =>
    /\ begins = 1
    /\ stmt.via \in {"none", "tx"}
    /\ stmt.via = "tx" => SawAllSeven(stmt.saw) /\ remaining = {}
    /\ xpc \in {"stmt", "commit"} => tx = "open" /\ SawAllSeven(connVars)
    /\ tx = "committed" => stmt.via = "tx" /\ stmt.res = "ok"
    /\ applied => tx = "committed"

\* C8 witness: an attributed Exec returned after committing its transaction
C8_Witness ==
  /\ ActiveAudit
  /\ xpc = "returned"
  /\ tx = "committed"
  /\ stmt.via = "tx"
  /\ ret = "ok"

\* C9: when an attributed Exec has returned, it returned no error exactly
\* when one transaction holding the seven assignments and the statement was
\* committed, and exactly then the statement's effect is durable; on an
\* error the transaction was rolled back (or never began), and after a
\* failed assignment the statement was never sent.
C9_WriteAndAttributionTogether ==
  ActiveAudit /\ xpc = "returned" =>
    /\ ret \in {"ok", "err"}
    /\ ret = "ok" <=>
         /\ begins = 1
         /\ tx = "committed"
         /\ stmt.via = "tx" /\ stmt.res = "ok"
         /\ SawAllSeven(stmt.saw)
    /\ applied <=> ret = "ok"
    /\ ret = "err" => tx \in {"none", "rolledback"}
    /\ remaining # {} => stmt.via = "none" /\ tx = "rolledback" /\ ret = "err"
    /\ stmt.res = "err" => tx = "rolledback" /\ ret = "err"

\* C9 witness: an attributed Exec returned the error of a session-variable
\* assignment that failed after others had succeeded
C9_Witness ==
  /\ ActiveAudit
  /\ xpc = "returned"
  /\ ret = "err"
  /\ remaining # {} /\ remaining # ConfigKeys
  /\ tx = "rolledback"

\* C10: an Exec whose context has no Info, or has the skip flag set, sends
\* the statement directly to the pool: it begins no transaction and sets no
\* session variable.
C10_PassThroughWithoutInfoOrSkip ==
  (ctx.info = NoInfo \/ ctx.skip) /\ xpc = "returned" =>
    /\ begins = 0
    /\ tx = "none"
    /\ stmt.via = "pool"
    /\ stmt.saw = NoVars
    /\ connVars = NoVars
    /\ ret = stmt.res

\* C10 witness: an Exec with an Info and the skip flag set has returned
C10_Witness ==
  /\ ctx.info # NoInfo
  /\ ctx.skip
  /\ xpc = "returned"
  /\ stmt.via = "pool"

\* a Query or QueryRow step
ReadStep ==
  \E i \in Infos, s \in BOOLEAN, res \in DbResults :
    Query(i, s, res) \/ QueryRow(i, s, res)

\* C11: the session variables never leak.  Whenever no transaction of the
\* injector is open the pooled connection carries no app.* value; every
\* statement and read that runs on the pool sees none; and inside a later
\* attributed Exec a variable is unset or holds that call's own value, never
\* an earlier actor's.
C11_SessionVariablesNeverLeak ==
  /\ tx # "open" => connVars = NoVars
  /\ stmt.via = "pool" => stmt.saw = NoVars
  /\ rd.via = "pool" => rd.saw = NoVars
  /\ tx = "open" =>
       \A k \in ConfigKeys : connVars[k] \in {Unset, Configs(ctx.info)[k]}

\* C11 witness: the first call was an attributed Exec that committed, and
\* the second call, a read, has run on the connection it released
C11_Witness ==
  /\ ctx.info # NoInfo /\ ~ctx.skip
  /\ xpc = "returned"
  /\ tx = "committed"
  /\ rd.at = 2
  /\ rd.via = "pool"

\* C12: a Query or QueryRow runs on the pool for every context: the step
\* begins no transaction, sets no session variable and changes nothing of
\* the injector's transaction state.
C12_ReadsPassThrough ==
  /\ [](rd.via \in {"none", "pool"})
  /\ [][ReadStep =>
          /\ rd'.via = "pool"
          /\ begins' = begins
          /\ tx' = tx
          /\ connVars' = connVars]_vars

\* C12 witness: a QueryRow was made with an Info and no skip flag
C12_Witness ==
  /\ rd.kind = "QueryRow"
  /\ rd.ctx.info # NoInfo
  /\ ~rd.ctx.skip
  /\ rd.via = "pool"

(***************************************************************************)
(* The early returns of the handler                                        *)
(***************************************************************************)
Completed == {i \in JobIds : reqs[i] # NoReq}

\* request i left no trace in the pipeline: no job, no warning, no factory
\* or repository call, no stored entry
NoTrace(i) ==
  /\ built[i] = NoJob
  /\ ~InQueue(i)
  /\ \A w \in Workers : ~HeldBy(w, i)
  /\ warns[i] = 0
  /\ errlogs[i] = 0
  /\ newCalls[i] = 0
  /\ createCalls[i] = 0
  /\ Stored(i) = {}

\* C13: a request whose identity extractor returned nil enqueues zero jobs,
\* logs no warning, and nothing is persisted for it, however the resource
\* reads and however far the pipeline runs afterwards.
C13_NilIdentityLeavesNothing ==
  \A i \in Completed :
    ~reqs[i].user.present => outcome[i] = "skipped" /\ NoTrace(i)

C13_Witness ==
  /\ ShutdownReturned
  /\ \E i \in Completed : ~reqs[i].user.present /\ reqs[i].resource = "items"
  /\ \E i \in Completed : done[i] = "persisted"

\* C14: a request whose resource name is "audit" enqueues zero jobs, and no
\* job or entry for the resource "audit" is ever queued, handed to
\* repo.Create or stored.
C14_AuditEndpointNotAudited ==
  /\ \A i \in Completed :
       reqs[i].resource = "audit" => outcome[i] = "skipped" /\ NoTrace(i)
  /\ \A k \in 1..Len(jobs) : jobs[k].resource # "audit"
  /\ \A w \in Workers : wpc[w] = "creating" => wjob[w].resource # "audit"
  /\ \A k \in 1..Len(entries) : entries[k].resource # "audit"

C14_Witness ==
  /\ ShutdownReturned
  /\ \E i \in Completed : reqs[i].user.present /\ reqs[i].resource = "audit"
  /\ \E k \in 1..Len(entries) : entries[k].resource = "items"


(***************************************************************************)
(* MethodToAction and the factory                                          *)
(***************************************************************************)
\* the last call was made by a worker for a request with method m
JobFor(m) == fcall.caller = "worker" /\ fcall.method = m

\* C15: MethodToAction yields one of the four valid actions for every
\* method string: CREATE for POST, UPDATE for PUT and PATCH, DELETE for
\* DELETE, and READ for GET, HEAD, OPTIONS and every other string, the empty
\* string and lower-case spellings included.
C15_MethodToActionTable ==
  fcall.caller = "worker" =>
    /\ fcall.method \in Methods
    /\ fcall.in.action \in {"CREATE", "UPDATE", "DELETE", "READ"}
    /\ JobFor("POST") => fcall.in.action = "CREATE"
    /\ JobFor("PUT") \/ JobFor("PATCH") => fcall.in.action = "UPDATE"
    /\ JobFor("DELETE") => fcall.in.action = "DELETE"
    /\ fcall.method \notin {"POST", "PUT", "PATCH", "DELETE"} =>
         fcall.in.action = "READ"

C15_Witness ==
  /\ JobFor("post")
  /\ fret.err = ""
  /\ fret.entry.Action = "READ"
  /\ fcount = MaxBuilds


\* the inputs of the last call pass the three checks of the factory
ValidInputs(in) ==
  /\ in.userID # ""
  /\ in.action \in {"CREATE", "UPDATE", "DELETE", "READ"}
  /\ in.resource # ""

Called == fcall.caller # "none"

\* C17: for a non-empty actor id, one of the four actions and a non-empty
\* resource, NewAuditLog succeeds; the entry carries the inputs unchanged,
\* its id is newly generated and differs from the id of every entry built
\* before, and its creation time is what the injected clock returned (what
\* the wall clock returned when no clock or a nil clock was given).
C17_ValidInputsBuildEntry ==
  Called /\ ValidInputs(fcall.in) =>
    /\ fret.err = ""
    /\ fret.entry.present
    /\ fret.entry.UserID = fcall.in.userID
    /\ fret.entry.Username = fcall.in.username
    /\ fret.entry.CorrelationID = fcall.in.correlationID
    /\ fret.entry.Action = fcall.in.action
    /\ fret.entry.Resource = fcall.in.resource
    /\ fret.entry.ResourceID = fcall.in.resourceID
    /\ fret.entry.IP = fcall.in.ip
    /\ fret.entry.UserAgent = fcall.in.userAgent
    /\ fret.entry.ID \in uuids \ fprior
    /\ fret.entry.CreatedAt = fclock.t
    /\ fcall.in.nowFn = "fixed" =>
         fclock.by = "injected" /\ fret.entry.CreatedAt = FixedTime
    /\ fcall.in.nowFn \in {"none", "nil"} =>
         fclock.by = "wall" /\ fret.entry.CreatedAt \in WallTimes

C17_Witness ==
  /\ Called /\ ValidInputs(fcall.in)
  /\ fcall.in.nowFn = "fixed"
  /\ fret.entry.present
  /\ fret.entry.CreatedAt = FixedTime
  /\ fprior # {}

\* the step is a call of NewAuditLog
FactoryStep == fcount' = fcount + 1

\* C18: for an empty actor id, an action outside the four, or an empty
\* resource, NewAuditLog returns an error and a nil entry; no clock is
\* consulted and no identifier is generated by the call.
C18_InvalidInputsBuildNothing ==
  /\ [](Called /\ ~ValidInputs(fcall.in) =>
          /\ fret.err # ""
          /\ ~fret.entry.present
          /\ fclock.by = "none"
          /\ ~fcreate.present)
  /\ [][FactoryStep /\ ~ValidInputs(fcall'.in) => uuids' = uuids]_vars

C18_Witness ==
  /\ Called
  /\ fcall.in.userID # "" /\ fcall.in.action = "READ" /\ fcall.in.resource = ""
  /\ fcall.in.nowFn = "fixed"
  /\ fret.err = "resource is required"
  /\ fclock.by = "none"
  /\ fprior # {} /\ uuids = fprior

\* an entry with nothing left unset
AllSet(e) ==
  /\ e.UserID # ""
  /\ e.Resource # ""
  /\ e.Action \in {"CREATE", "UPDATE", "DELETE", "READ"}
  /\ ~e.Details.isNil
  /\ ~e.ChangedFields.isNil

\* C19: every AuditLog the factory returns has a non-empty actor id, a
\* non-empty resource, one of the four actions, a details document that is
\* set and a changed-fields document that is set.
C19_EntriesFullySet == fret.entry.present => AllSet(fret.entry)

\* C19 (the worker's half): every entry a worker passes to repo.Create has
\* all of these set, the details the handler builds having no changed_fields.
C19_WorkerEntriesFullySet == fcreate.present => AllSet(fcreate)


(***************************************************************************)
(* The audit context                                                       *)
(***************************************************************************)
\* C16: InfoFrom yields absent on a context no info was ever attached to;
\* on the context WithInfo(ctx, info) returned it yields exactly info; and
\* after a second WithInfo(ctx', info2) on that derived context the newest
\* context yields info2 and not info.
C16_InfoFromLatestWithInfo ==
  got.kind = "InfoFrom" =>
    /\ (\A k \in 1..Len(got.of) : got.of[k].key # "infoKey") =>
         got.info = NoInfo
    /\ \A info \in {InfoAlice, InfoBob} :
         got.of # Background /\ got.of[Len(got.of)] = InfoBinding(info) =>
           got.info = info
    /\ \A info \in {InfoAlice, InfoBob}, info2 \in {InfoAlice, InfoBob} :
         /\ Len(got.of) >= 2
         /\ got.of[Len(got.of) - 1] = InfoBinding(info)
         /\ got.of[Len(got.of)] = InfoBinding(info2)
         => got.info = info2 /\ (info # info2 => got.info # info)

C16_Witness ==
  /\ got.kind = "InfoFrom"
  /\ got.of = <<InfoBinding(InfoAlice), InfoBinding(InfoBob)>>
  /\ got.info = InfoBob


(***************************************************************************)
(* List                                                                    *)
(***************************************************************************)
\* the stored entries the filters of the last List select
Filtered == {r \in lst.of : Matches(r, lst.f)}

\* C20: the total List returns is the number of stored entries matching the
\* filters, for every limit and offset, an empty page included.
C20_TotalIsFilteredCount ==
  lst.kind = "List" /\ lst.err = "" => lst.total = Cardinality(Filtered)

\* C20 (non-empty pages): whenever the page holds an entry, the total is the
\* size of the filtered set and not the size of the page.
C20_TotalOnNonEmptyPage ==
  lst.kind = "List" /\ lst.err = "" /\ lst.items # << >> =>
    lst.total = Cardinality(Filtered)


(***************************************************************************)
(* Properties of the workers                                               *)
(***************************************************************************)
\* C21: a job placed in the queue is dequeued by exactly one worker: it is
\* buffered at most once, received at most once, never in the hands of two
\* workers at the same time, and once received it is never in the queue
\* again.
C21_DequeuedByOneWorker ==
  /\ \A i \in JobIds :
       /\ newCalls[i] <= 1
       /\ Cardinality({k \in 1..Len(jobs) : jobs[k].id = i}) <= 1
       /\ Cardinality({w \in Workers : HeldBy(w, i)}) <= 1
       /\ newCalls[i] = 1 => ~InQueue(i)
       /\ (\E w \in Workers : HeldBy(w, i)) \/ done[i] # "none" =>
            newCalls[i] = 1
  /\ \A w \in Workers : wpc[w] = "creating" => wjob[w].id \in Enqueued

\* C21 witness: every worker is inside repo.Create with a job of its own,
\* after an earlier job has been processed
C21_Witness ==
  /\ \A w \in Workers : wpc[w] = "creating"
  /\ \A v, w \in Workers : v # w => wjob[v].id # wjob[w].id
  /\ \E i \in JobIds : done[i] \in {"persisted", "failed"}


\* a worker receives a job that fails one of the three checks of the factory
RejectStep ==
  /\ jobs # << >>
  /\ newCalls'[Head(jobs).id] = newCalls[Head(jobs).id] + 1
  /\ \/ Head(jobs).userID = ""
     \/ Head(jobs).action \notin {"CREATE", "UPDATE", "DELETE", "READ"}
     \/ Head(jobs).resource = ""

\* C22: when the factory rejects a dequeued job the worker logs the error
\* once, makes no repo.Create call for it, discards it, and is idle again --
\* not terminated -- with the rest of the buffer left for the next receive;
\* a rejected job is never queued, held or stored afterwards.
C22_RejectedJobIsDiscarded ==
  /\ [][RejectStep =>
          /\ errlogs'[Head(jobs).id] = errlogs[Head(jobs).id] + 1
          /\ done'[Head(jobs).id] = "invalid"
          /\ createCalls' = createCalls
          /\ entries' = entries
          /\ jobs' = Tail(jobs)
          /\ wpc' = wpc /\ wg' = wg
          /\ \E w \in Workers : wpc'[w] = "idle"]_vars
  /\ [](\A i \in JobIds : done[i] = "invalid" =>
          /\ newCalls[i] = 1
          /\ createCalls[i] = 0
          /\ errlogs[i] = 1
          /\ ~InQueue(i)
          /\ \A w \in Workers : ~HeldBy(w, i)
          /\ Stored(i) = {})

\* C22 witness: a job enqueued after a rejected one was stored, and no worker
\* has terminated
C22_Witness ==
  /\ \E i, j \in JobIds : i < j /\ done[i] = "invalid" /\ done[j] = "persisted"
  /\ \A w \in Workers : wpc[w] # "terminated"
  /\ ~closed


\* C23: a worker becomes terminated only from the receive of its loop, in a
\* state where Shutdown has closed the queue and the queue holds no jobs;
\* the step that terminates it is not the handling of a validation or
\* repository error, and while any worker is terminated the queue is closed
\* and empty.
C23_TerminatedOnlyWhenClosedAndEmpty ==
  /\ [][\A w \in Workers :
          wpc[w] # "terminated" /\ wpc'[w] = "terminated" =>
            /\ closed
            /\ jobs = << >>
            /\ wpc[w] = "idle"
            /\ errlogs' = errlogs /\ done' = done /\ newCalls' = newCalls]_vars
  /\ []((\E w \in Workers : wpc[w] = "terminated") =>
          closed /\ jobs = << >>)
  /\ [](~closed \/ jobs # << >> =>
          \A w \in Workers : wpc[w] \in {"idle", "creating"})

\* C23 witness: after a validation error and a repository error were
\* handled, one worker has terminated while another is still inside
\* repo.Create
C23_Witness ==
  /\ \E w \in Workers : wpc[w] = "terminated"
  /\ \E w \in Workers : wpc[w] = "creating"
  /\ \E i, j \in JobIds : done[i] = "invalid" /\ done[j] = "failed"


\* C24: with the workers scheduled fairly, if every repo.Create call
\* eventually returns, a Shutdown that has closed the queue eventually
\* returns; and if some repo.Create call never returns, no Shutdown ever
\* returns.
C24_ShutdownReturnsIffCreatesReturn ==
  /\ (\A w \in Workers : []<>(wpc[w] # "creating")) =>
       \A c \in Closers : (spc[c] = "waiting") ~> (spc[c] = "returned")
  /\ (\E w \in Workers : <>[](wpc[w] = "creating")) =>
       [](\A c \in Closers : spc[c] # "returned")

\* C24 witness: Shutdown has closed the queue and waits while a worker is
\* inside repo.Create and jobs are still buffered
C24_Witness ==
  /\ \E c \in Closers : spc[c] = "waiting"
  /\ \E w \in Workers : wpc[w] = "creating"
  /\ jobs # << >>


\* the workers whose goroutine has not ended
Live == {w \in Workers : wpc[w] # "terminated"}

\* C25: the queue never holds more jobs than its capacity, whatever the
\* producers and the workers do, and the pool is the set of workers started
\* at construction: none is added, and a worker that ended is never
\* restarted.
C25_QueueAndPoolAreBounded ==
  /\ [](/\ Len(jobs) <= QueueCap
        /\ DOMAIN wpc = Workers
        /\ Cardinality(Live) <= NumWorkers
        /\ wg = Cardinality(Live))
  /\ [][/\ wg' <= wg
        /\ \A w \in Workers :
             wpc[w] = "terminated" => wpc'[w] = "terminated"]_vars

\* C25 witness: with the whole pool alive and a worker inside repo.Create,
\* the queue is at capacity and a further request was turned away
C25_Witness ==
  /\ Len(jobs) = QueueCap
  /\ wg = NumWorkers
  /\ \E w \in Workers : wpc[w] = "creating"
  /\ \E i \in JobIds : outcome[i] = "dropped" /\ warns[i] = 1


\* the jobs a worker has received from the queue
Received == {i \in JobIds : newCalls[i] >= 1}

\* C26: jobs leave the queue in the order in which they were enqueued (the
\* order of their ids): the buffer is in that order, a receive takes the
\* oldest job not yet received, and a job is received only when every job
\* enqueued before it has been -- whichever workers take them.
C26_DequeueInEnqueueOrder ==
  /\ [](\A k, l \in 1..Len(jobs) : k < l => jobs[k].id < jobs[l].id)
  /\ [](\A a, b \in Enqueued : a < b /\ b \in Received => a \in Received)
  /\ [][\A i \in JobIds :
          newCalls'[i] > newCalls[i] =>
            /\ jobs # << >> /\ i = Head(jobs).id
            /\ \A j \in Enqueued \ Received : i <= j]_vars

\* C26 witness: of two jobs, the older is with the second worker and the
\* younger with the first, a third one still waiting in the queue
C26_Witness ==
  \E a, b, c \in Enqueued :
    /\ a < b /\ b < c
    /\ \E v, w \in Workers : v > w /\ HeldBy(v, a) /\ HeldBy(w, b)
    /\ InQueue(c)


\* worker w's repo.Create call for job b returns in this step
Completes(w, b) == HeldBy(w, b) /\ done[b] = "none" /\ done'[b] # "none"

\* C27: delivery to the store is not globally FIFO.  A repo.Create call for
\* job B can return while a job A enqueued before B is unfinished, and then A
\* is inside repo.Create on a worker other than B's: it takes two workers.
\* A worker has one call in flight at a time, so with a single worker the
\* calls, and the entries, follow the enqueue order.
C27_OvertakingNeedsTwoWorkers ==
  [][\A w \in Workers, b \in JobIds :
       Completes(w, b) =>
         \A a \in Enqueued :
           a < b /\ done[a] = "none" =>
             \E v \in Workers \ {w} : HeldBy(v, a)]_vars

\* C27 witness: the store holds the entry of a job ahead of the entry of a
\* job that was enqueued before it
C27_Witness ==
  \E k, l \in 1..Len(entries) : k < l /\ entries[k].id > entries[l].id


(***************************************************************************)
(* The injector's transactions                                             *)
(***************************************************************************)
\* C28: no transaction is open when Exec is not running -- whichever way the
\* call ended -- and a transaction is open only inside the call that began
\* it: every attributed Exec begins one transaction of its own at entry, and
\* its statement runs in that one.
C28_TransactionPerCall ==
  /\ [](xpc \in {"idle", "returned"} => tx # "open")
  /\ [](tx = "open" => xpc \in {"set", "stmt", "commit"} /\ begins = 1)
  /\ [](begins <= 1 /\ (stmt.via = "tx" => begins = 1))
  /\ [][calls' = calls + 1 => tx # "open" /\ tx' # "open"]_vars
  /\ [][tx # "open" /\ tx' = "open" =>
          xpc = "entry" /\ begins = 0 /\ begins' = 1]_vars

\* C28 witness: the last of several calls, an attributed one, returned the
\* error of its statement with its transaction rolled back
C28_Witness ==
  /\ calls = MaxCalls
  /\ ctx.info # NoInfo /\ ~ctx.skip
  /\ xpc = "returned"
  /\ stmt.via = "tx" /\ stmt.res = "err"
  /\ tx = "rolledback"

\* p.pool.Begin returned an error in this step of an attributed Exec
BeginFails == xpc = "entry" /\ ctx.info # NoInfo /\ ~ctx.skip /\ tx' # "open"

\* tx.Commit returned an error in this step
CommitFails == xpc = "commit" /\ xpc' = "returned" /\ tx' # "committed"

\* C29: when beginning the transaction or committing it fails, the
\* attributed Exec returns the error with an empty command tag and the write
\* is not applied; the statement of an attributed Exec is never run on the
\* pool.
C29_NoUnattributedFallback ==
  /\ [][BeginFails \/ CommitFails =>
          /\ xpc' = "returned"
          /\ ret' = "err"
          /\ tag' = "empty"
          /\ ~applied'
          /\ stmt' = stmt]_vars
  /\ [](ctx.info # NoInfo /\ ~ctx.skip =>
          /\ stmt.via \in {"none", "tx"}
          /\ xpc = "returned" /\ ret = "err" => ~applied)

\* C29 witness: an attributed Exec returned the error of a failed commit,
\* after its statement had succeeded inside the transaction
C29_Witness ==
  /\ ctx.info # NoInfo /\ ~ctx.skip
  /\ xpc = "returned"
  /\ stmt.via = "tx" /\ stmt.res = "ok"
  /\ tx = "rolledback"
  /\ ret = "err" /\ tag = "empty" /\ ~applied


(***************************************************************************)
(* Contexts are immutable                                                  *)
(***************************************************************************)
\* C30: WithInfo and WithSkipAudit return a new context and leave every
\* existing context as it was: each context -- a parent, a sibling -- reads
\* the info and the skip flag it read when it was returned, whatever was
\* derived later; and InfoFrom hands out a copy, so writing to the value it
\* returned changes no context's reads.
C30_ContextsAreImmutable ==
  /\ [](\A n \in 1..Len(heap) :
          /\ InfoFrom(ChainOf(heap, n)) = snap[n].info
          /\ ShouldSkip(ChainOf(heap, n)) = snap[n].skip)
  /\ [][/\ Len(heap') >= Len(heap)
        /\ \A n \in 1..Len(heap) : heap'[n] = heap[n]]_vars
  /\ [][ptr.live /\ ptr'.val # ptr.val /\ ptr'.of = ptr.of =>
          heap' = heap]_vars

\* C30 witness: a context with Alice's info has two derivations, one with
\* Bob's info and one with the skip flag, and the value read from it was
\* overwritten; it still reads Alice's info and no skip flag
C30_Witness ==
  /\ Len(heap) = 3
  /\ \E p, c, d \in 1..Len(heap) :
       /\ heap[c].parent = p /\ heap[d].parent = p
       /\ heap[p].binding = InfoBinding(InfoAlice)
       /\ heap[c].binding = InfoBinding(InfoBob)
       /\ heap[d].binding = SkipBinding
       /\ ptr.live /\ ptr.of = p /\ ptr.val = InfoMallory
       /\ InfoFrom(ChainOf(heap, p)) = InfoAlice
       /\ ~ShouldSkip(ChainOf(heap, p))

(***************************************************************************)
(* The skip flag                                                           *)
(***************************************************************************)
\* the info bindings of a context, in the order they were attached
InfoBindings(c) == SelectSeq(c, LAMBDA b : b.key = "infoKey")

\* C31: ShouldSkip is false on a context WithSkipAudit was never applied
\* on, with or without info attached, and true once it was applied, on that
\* context and on everything derived from it by further WithInfo and
\* WithSkipAudit calls; what InfoFrom reads is what it would read had the
\* skip flag never been attached.
C31_SkipFlagIsSticky ==
  /\ got.kind = "ShouldSkip" =>
       got.skip = (\E k \in 1..Len(got.of) : got.of[k] = SkipBinding)
  /\ got.kind = "InfoFrom" =>
       /\ got.info = InfoFrom(InfoBindings(got.of))
       /\ got.info = IF InfoBindings(got.of) = << >> THEN NoInfo
                     ELSE InfoBindings(got.of)[Len(InfoBindings(got.of))].info

\* C31 witness: the flag was attached first and two infos after it; the
\* newest context still reads the flag
C31_Witness ==
  /\ got.kind = "ShouldSkip"
  /\ got.of = <<SkipBinding, InfoBinding(InfoAlice), InfoBinding(InfoBob)>>
  /\ got.skip

(***************************************************************************)
(* The order of the factory's checks                                       *)
(***************************************************************************)
\* C32: when several constraints are violated at once NewAuditLog reports
\* the first in the order actor id, action, resource: an empty actor id is
\* reported whatever the action and the resource are, and an invalid action
\* is reported before an empty resource.
C32_FirstViolationIsReported ==
  Called =>
    /\ fcall.in.userID = "" => fret.err = "user_id is required"
    /\ fcall.in.userID # ""
         /\ fcall.in.action \notin {"CREATE", "UPDATE", "DELETE", "READ"}
         => fret.err = "invalid action"
    /\ fcall.in.userID # ""
         /\ fcall.in.action \in {"CREATE", "UPDATE", "DELETE", "READ"}
         /\ fcall.in.resource = ""
         => fret.err = "resource is required"

\* C32 witness: all three constraints are violated in one call and the
\* actor id is the one reported
C32_Witness ==
  /\ Called
  /\ fcall.in.userID = "" /\ fcall.in.action = "INVALID"
  /\ fcall.in.resource = ""
  /\ fret.err = "user_id is required"
  /\ ~fret.entry.present

(***************************************************************************)
(* The documents of an entry                                               *)
(***************************************************************************)
\* the value the given details hold under "changed_fields", if any
StoredChanges(d) == {p.v : p \in {q \in d.kv : q.k = "changed_fields"}}

\* C33: on success the changed-fields document of the entry is the value
\* stored under "changed_fields" in the details when that value is a map,
\* and the empty document otherwise (no details, no such key, a value that
\* is not a map); the details document is the given one, or the empty
\* document when none was given.
C33_ChangedFieldsFromDetails ==
  Called /\ fret.err = "" =>
    /\ fret.entry.present
    /\ fret.entry.Details =
         IF fcall.in.details.isNil THEN EmptyMap ELSE fcall.in.details
    /\ \A v \in StoredChanges(fcall.in.details) :
         /\ v.kind = "map" => fret.entry.ChangedFields = v.m
         /\ v.kind # "map" => fret.entry.ChangedFields = EmptyMap
    /\ StoredChanges(fcall.in.details) = {} =>
         fret.entry.ChangedFields = EmptyMap

\* C33 witness: the details carry a map of one changed field and the entry
\* has that map as its changed-fields document
C33_Witness ==
  /\ Called /\ fret.err = ""
  /\ fcall.in.details =
       MapOf({[k |-> "changed_fields",
               v |-> MapValue(MapOf({[k |-> "amount", v |-> "100"]}))]})
  /\ fret.entry.ChangedFields = MapOf({[k |-> "amount", v |-> "100"]})
  /\ fret.entry.Details = fcall.in.details

(***************************************************************************)
(* What the handler captures of a request                                  *)
(***************************************************************************)
\* the request in hand is one the handler audits
Audited == ~Skips(hreq.user, hreq.resource)

\* C34: for a completed request that is audited the wrapped handler has
\* returned before the job is built, at most one job is built for the
\* request, and the job's details hold the request method and the status
\* code of the response, 200 when the handler never wrote a status.
C34_JobCapturesMethodAndStatus ==
  /\ [](hpc \in {"serving", "returned", "panicked"} =>
          ~hjob.present /\ hbuilt = 0)
  /\ [][hjob'.present /\ hjob' # hjob =>
          hpc = "returned" /\ hpc' = "done" /\ hbuilt' = 1]_vars
  /\ [](hbuilt <= 1)
  /\ [](hpc = "done" /\ Audited =>
          /\ hjob.present /\ hbuilt = 1
          /\ hjob.method = hreq.method
          /\ hjob.status_code = sent
          /\ ~ww.wroteHeader => hjob.status_code = 200)

\* C34 witness: the second request is a DELETE whose handler wrote nothing
\* at all, and its job records 200
C34_Witness ==
  /\ hn = 2 /\ hpc = "done" /\ Audited
  /\ ~ww.wroteHeader
  /\ hjob = [present |-> TRUE, status_code |-> 200, method |-> "DELETE"]

(***************************************************************************)
(* PostgresRepo.Create                                                     *)
(***************************************************************************)
\* the documents of the entry in hand can be serialized
DetailsOk == \A p \in rmade.Details.kv : p.v # Chan
ChangedOk == \A p \in rmade.ChangedFields.kv : p.v # Chan

\* C35: Create issues at most one Exec per call; when the details or the
\* changed-fields document cannot be serialized it returns an error and
\* issues no Exec; when the Exec fails it returns an error that wraps the
\* database error; it returns no error only when the row was inserted.
C35_CreateReportsEveryFailure ==
  /\ Len(rexecs) <= 1
  /\ rpc = "created" =>
       /\ ~DetailsOk \/ ~ChangedOk => rret # NoErr /\ rexecs = << >>
       /\ ~DetailsOk => rret.msg = "serializing details"
       /\ DetailsOk /\ ~ChangedOk => rret.msg = "serializing changed_fields"
       /\ DetailsOk /\ ChangedOk => Len(rexecs) = 1
       /\ Len(rexecs) = 1 /\ ~rstored =>
            /\ rret.msg = "inserting audit log entry"
            /\ rret.cause = "exec error"
       /\ rret = NoErr => rstored /\ Len(rexecs) = 1
       /\ rstored => rret = NoErr
  /\ rpc # "created" => rexecs = << >> /\ ~rstored

\* C35 witness: the second call's Exec failed and Create returned the
\* wrapped error
C35_Witness ==
  /\ rn = 2 /\ rpc = "created"
  /\ Len(rexecs) = 1 /\ ~rstored
  /\ rret = [msg |-> "inserting audit log entry", cause |-> "exec error"]

\* C36: an AuditLog is never written to after it was built: the entry the
\* worker passes to Create is the one the factory returned, Create leaves
\* every field as it was, and for an entry without a changed-fields
\* document Create sends an empty document and leaves the entry without one.
C36_EntryIsNeverMutated ==
  /\ rentry = rmade
  /\ rcaller = "worker" =>
       \E m \in HttpMethods, t \in WallTimes :
         rentry = NewAuditLog(JobInputs(m, "u1", "items"), rn, t).entry
  /\ rpc = "created" /\ rmade.ChangedFields.isNil /\ Len(rexecs) = 1 =>
       /\ rexecs[1].changed = [ok |-> TRUE, null |-> FALSE, obj |-> {}]
       /\ rentry.ChangedFields.isNil

\* C36 witness: a host's entry has no changed-fields document, the insert
\* was made with an empty one and the entry still has none
C36_Witness ==
  /\ rpc = "created" /\ rstored
  /\ rmade.ChangedFields = NilMap
  /\ rmade.Details = MapOf({[k |-> "amount", v |-> Scalar]})
  /\ rexecs[1].changed = [ok |-> TRUE, null |-> FALSE, obj |-> {}]
  /\ rentry.ChangedFields = NilMap

\* C40: a worker calls Create with a context derived from a fresh
\* background context, whatever context the request carried: it holds no
\* audit info and no skip flag, and the insert takes the injector's
\* pass-through path.
C40_WorkerInsertsPassThrough ==
  rcaller = "worker" =>
    /\ rctx = WithTimeout(Background)
    /\ InfoFrom(rctx) = NoInfo
    /\ ~ShouldSkip(rctx)
    /\ \A k \in 1..Len(rexecs) :
         rexecs[k].ctx = rctx /\ rexecs[k].path = "pass"

\* C40 witness: the request carried Alice's info and the worker's insert
\* for it went through without a transaction
C40_Witness ==
  /\ rcaller = "worker" /\ rpc = "created" /\ rstored
  /\ rreq = WithValue(Background, InfoBinding(InfoAlice))
  /\ InfoFrom(rreq) = InfoAlice
  /\ Len(rexecs) = 1 /\ rexecs[1].path = "pass"

(***************************************************************************)
(* Job conservation                                                        *)
(***************************************************************************)
\* jobs a worker holds, jobs that are finished, requests that reached the
\* select with a job
Held == {i \in JobIds : \E w \in Workers : HeldBy(w, i)}
Finished == {i \in JobIds : done[i] \in {"persisted", "failed", "invalid"}}
ReachedEnqueue == {i \in JobIds : built[i] # NoJob}

\* C37: in every state the number of jobs accepted by the enqueue step is
\* the number buffered plus the number held by workers plus the number
\* finished (persisted, failed in the repository, rejected by validation),
\* and every request that reached the enqueue step is counted once, as
\* accepted or as dropped.
C37_JobConservation ==
  /\ Cardinality(Enqueued) =
       Len(jobs) + Cardinality(Held) + Cardinality(Finished)
  /\ \A i \in ReachedEnqueue : outcome[i] \in {"enqueued", "dropped"}

\* C37, apart from the closed queue: the accepted jobs are conserved in
\* every state, each is in one place only, and a request that reached the
\* enqueue step and is neither accepted nor dropped is one whose send
\* panicked on the closed queue.
C37_AcceptedJobsAreConserved ==
  /\ Cardinality(Enqueued) =
       Len(jobs) + Cardinality(Held) + Cardinality(Finished)
  /\ \A i \in Enqueued :
       (IF InQueue(i) THEN 1 ELSE 0) + (IF i \in Held THEN 1 ELSE 0)
         + (IF i \in Finished THEN 1 ELSE 0) = 1
  /\ \A i \in JobIds : InQueue(i) \/ i \in Held \/ i \in Finished =>
       i \in Enqueued
  /\ \A i \in ReachedEnqueue :
       /\ outcome[i] \in {"enqueued", "dropped", "panicked"}
       /\ outcome[i] = "panicked" => closed

(***************************************************************************)
(* Requests the factory rejects                                            *)
(***************************************************************************)
\* a request with an identity whose UserID is empty, or one that resolved
\* to the empty resource name
UnvalidatedReq(rq) ==
  /\ rq # NoReq
  /\ rq.user.present
  /\ rq.user.UserID = "" \/ rq.resource = ""

Unvalidated(i) == UnvalidatedReq(reqs[i])

\* C38: for a request whose identity has an empty UserID or whose resource
\* name is empty the handler builds the job and sends it like any other --
\* it takes a slot of the queue when there is room -- and the job never
\* reaches repo.Create: the worker's factory call rejects it.
C38_RejectedJobsTakeQueueSlots ==
  /\ [][nextReq' = nextReq + 1 /\ UnvalidatedReq(reqs'[nextReq]) =>
          /\ built'[nextReq] # NoJob
          /\ built'[nextReq].userID = reqs'[nextReq].user.UserID
          /\ built'[nextReq].resource = reqs'[nextReq].resource
          /\ ~closed /\ Len(jobs) < QueueCap =>
               /\ jobs' = Append(jobs, built'[nextReq])
               /\ outcome'[nextReq] = "enqueued"]_vars
  /\ [](\A i \in JobIds : Unvalidated(i) =>
          /\ outcome[i] # "skipped"
          /\ createCalls[i] = 0
          /\ Stored(i) = {}
          /\ \A w \in Workers : ~HeldBy(w, i)
          /\ done[i] \in {"none", "invalid"}
          /\ done[i] = "invalid" => newCalls[i] = 1 /\ errlogs[i] = 1)

\* C38 witness: a job with an empty UserID and a job with an empty resource
\* fill the queue, a later valid job was dropped, and an earlier rejected
\* job was discarded by a worker
C38_Witness ==
  /\ Len(jobs) = QueueCap
  /\ \E i, j, k, l \in JobIds :
       /\ l < i /\ i < j /\ j < k
       /\ Unvalidated(l) /\ done[l] = "invalid"
       /\ InQueue(i) /\ reqs[i].user.UserID = ""
       /\ InQueue(j) /\ reqs[j].resource = ""
       /\ ~Unvalidated(k) /\ outcome[k] = "dropped" /\ warns[k] = 1

(***************************************************************************)
(* Shutdown called more than once                                          *)
(***************************************************************************)
\* C39: over any sequence of Shutdown calls the queue is closed once and
\* every call returns after the workers have exited: a second call,
\* sequential or concurrent, does not try to close the closed queue.
C39_ShutdownIsIdempotent ==
  /\ [](\A c \in Closers : spc[c] # "panicked")
  /\ [](\A c \in Closers : spc[c] = "returned" =>
          \A w \in Workers : wpc[w] = "terminated")
  /\ [][closed => closed']_vars

\* C39, the first call only: exactly one call closes the queue, it returns
\* after every worker has exited, and any other call that reaches
\* close(m.jobs) panics there and never waits or returns.
C39_OnlyFirstShutdownReturns ==
  /\ [](Cardinality({c \in Closers : spc[c] \in {"waiting", "returned"}})
          = IF closed THEN 1 ELSE 0)
  /\ [](\A c \in Closers : spc[c] = "returned" =>
          \A w \in Workers : wpc[w] = "terminated")
  /\ [](\A c \in Closers : spc[c] = "panicked" => closed)
  /\ [][\A c \in Closers : spc[c] = "idle" /\ spc'[c] # "idle" =>
          spc'[c] = IF closed THEN "panicked" ELSE "waiting"]_vars
  /\ [][closed => closed']_vars

=============================================================================
